---- MODULE Spec2Model ----
(***************************************************************************)
(* A model of the product-review API of myproject: the comment moderation  *)
(* workflow (views.py, serializers.py, admin.py), the review store and its *)
(* save hook (models.py), the sentiment scorer (utils.py) and the          *)
(* trending-entry generation (generate_sample_data.py).                    *)
(***************************************************************************)
EXTENDS Integers, Sequences, FiniteSets, TLC

\* ------------------------------------------------------------------ bounds
\* number of comment rows ever inserted (autoincrement ids 1..MaxComments)
MaxComments == 2

\* ------------------------------------------------------- users and products
\* auth.User rows: two regular users and one staff user; the anonymous caller
\* is a request without credentials.
Users == {"alice", "bob", "admin"}
Staff == {"admin"}
Anonymous == "anonymous"
Callers == Users \cup {Anonymous}

\* Product rows (the API exposes products read-only, so the set is fixed)
Products == {1, 2}
\* a primary key no row has
NoSuchPk == 99
\* a request field that is not sent
AbsentPk == 0
Absent == "<absent>"

\* comment texts; the empty string is a blank submission
Contents == {"nice", "bad"}
Blank == ""

\* number of review rows ever inserted (autoincrement ids 1..MaxReviews)
MaxReviews == 1
\* cap on the helpful votes a review collects
MaxVotes == 2

VARIABLES
    comments,     \* Comment table: id -> row
    commentSeq,   \* last id the Comment table's autoincrement handed out
    reviews,      \* Review table: id -> row
    reviewSeq,    \* last id the Review table's autoincrement handed out
    response,     \* the last write request served and its outcome
    sentText,     \* the text handed to analyze_sentiment
    sentResult,   \* what analyze_sentiment returned for it
    trending,     \* TrendingProduct table: a set of rows
    trendRun,     \* position of create_trending_products in its loops
    scoreIn,      \* the stores and window calculate_trend_score is called on
    scoreOut,     \* what calculate_trend_score returned
    snapshots,    \* ProductAnalytics and CategoryAnalytics tables
    snapshotRun,  \* position of create_analytics_data in its loop
    dashIn,       \* the clock and tables generate_dashboard_data reads
    dashOut,      \* what generate_dashboard_data returned
    kwIn,         \* the texts and max_features extract_keywords is called on
    kwOut,        \* what extract_keywords returned
    callIn,       \* an analytics entry point and the step of it that fails
    callOut,      \* what that entry point gave its caller
    inflight,     \* the review requests being served, each with the row it read
    profiles      \* UserProfile table: user -> row

commentVars == <<comments, commentSeq>>
reviewVars == <<reviews, reviewSeq>>
sentimentVars == <<sentText, sentResult>>
trendingVars == <<trending, trendRun>>
scoreVars == <<scoreIn, scoreOut>>
snapshotVars == <<snapshots, snapshotRun>>
dashVars == <<dashIn, dashOut>>
keywordVars == <<kwIn, kwOut>>
entryVars == <<callIn, callOut>>
coreVars == <<keywordVars, entryVars, inflight, profiles>>
analyticsVars == <<scoreVars, snapshotVars, dashVars, coreVars>>
vars == <<comments, commentSeq, reviews, reviewSeq, response,
          sentText, sentResult, trending, trendRun,
          scoreIn, scoreOut, snapshots, snapshotRun, dashIn, dashOut,
          kwIn, kwOut, callIn, callOut, inflight, profiles>>
\* what a comment request, a review request leaves alone
besideComments == <<reviewVars, sentimentVars, trendingVars, analyticsVars>>
besideReviews == <<commentVars, sentimentVars, trendingVars, analyticsVars>>

\* ------------------------------------------------------------- permissions
is_staff(u) == u \in Staff
is_authenticated(u) == u \in Users

\* rest_framework.permissions.AllowAny
AllowAny(u) == TRUE
\* rest_framework.permissions.IsAuthenticated
IsAuthenticated(u) == is_authenticated(u)
\* A plausible slip: the permission lets every authenticated user through.
IsAdminUserAnyAuthenticated(u) == is_authenticated(u)
\* views.IsAdminUser.has_permission: request.user and request.user.is_staff
IsAdminUser(u) == is_staff(u)

\* The status a refused request gets: 401 without credentials, 403 with.
DeniedStatus(u) == IF is_authenticated(u) THEN 403 ELSE 401

\* ---------------------------------------------------------------- querysets
Rows(table) == {table[i] : i \in DOMAIN table}

\* Meta.ordering = ['-created_at']: newest first
RECURSIVE OrderByCreatedDesc(_)
OrderByCreatedDesc(rows) ==
    IF rows = {} THEN <<>>
    ELSE LET newest == CHOOSE r \in rows :
                           \A s \in rows : s.created_at <= r.created_at
         IN  <<newest>> \o OrderByCreatedDesc(rows \ {newest})

\* A plausible slip: regular users are shown every comment.
CommentGetQuerysetAll(u) == Rows(comments)
\* CommentViewSet.get_queryset
CommentGetQueryset(u) ==
    IF is_staff(u) THEN Rows(comments)
    ELSE {c \in Rows(comments) : c.user = u}

\* A plausible slip: the approval filter is left out.
ProductCommentsQuerysetUnfiltered(p) == {c \in Rows(comments) : c.product = p}
\* product.comments.filter(is_approved=True)
ProductCommentsQueryset(p) ==
    {c \in {r \in Rows(comments) : r.product = p} : c.is_approved = TRUE}

\* A plausible slip: the filter tests the wrong value.
PendingQuerysetApproved == {c \in Rows(comments) : c.is_approved = TRUE}
\* Comment.objects.filter(is_approved=False)
PendingQueryset == {c \in Rows(comments) : c.is_approved = FALSE}

\* Comment.objects.filter(is_approved=True)
ApprovedQueryset == {c \in Rows(comments) : c.is_approved = TRUE}

\* -------------------------------------------------------------- serializers
\* CommentSerializer output of one row
CommentRepr(c) ==
    [id |-> c.id, product |-> c.product, user |-> c.user, content |-> c.content,
     is_approved |-> c.is_approved, created_at |-> c.created_at]

\* CommentSerializer(queryset, many=True).data
RECURSIVE CommentListRepr(_)
CommentListRepr(seq) ==
    IF seq = <<>> THEN <<>>
    ELSE <<CommentRepr(Head(seq))>> \o CommentListRepr(Tail(seq))

\* request bodies: each field is sent well-formed, sent malformed or not sent.
\* A body is either complete (product and content sent) or carries one field.
CommentBodies ==
    {b \in [product : Products \cup {NoSuchPk, AbsentPk},
            content : Contents \cup {Blank, Absent},
            is_approved : {"true", "false", Absent}] :
        \/ b.product \in Products /\ b.content \in Contents
        \/ Cardinality({f \in {"product", "content", "is_approved"} :
               CASE f = "product" -> b.product # AbsentPk
                 [] f = "content" -> b.content # Absent
                 [] f = "is_approved" -> b.is_approved # Absent}) = 1}

\* A plausible slip: is_approved is accepted from the request.
CommentCreateFieldsWithApproval == {"product", "content", "is_approved"}
\* CommentCreateSerializer.Meta.fields
CommentCreateFields == {"product", "content"}

\* CommentSerializer.Meta: fields minus read_only_fields (and the read-only
\* id, username and time_ago)
CommentWritableFields == {"product", "content"}

\* whether the body carries the field at all
Sent(body, f) ==
    CASE f = "product" -> body.product # AbsentPk
      [] f = "content" -> body.content # Absent
      [] f = "is_approved" -> body.is_approved # Absent

\* field validation: PrimaryKeyRelatedField needs an existing product,
\* CharField refuses a blank string, BooleanField parses "true"/"false"
FieldValid(body, f) ==
    CASE f = "product" -> body.product \in Products
      [] f = "content" -> body.content \in Contents
      [] f = "is_approved" -> body.is_approved \in {"true", "false"}

\* required fields: the model fields without a default
CommentRequired == {"product", "content"}

\* serializer.is_valid(): fields outside `fields` are ignored; a sent field
\* must validate; a required field must be sent unless the update is partial
IsValid(body, fields, partial) ==
    \A f \in fields :
        IF Sent(body, f) THEN FieldValid(body, f)
        ELSE partial \/ f \notin CommentRequired

\* the value a validated field carries
Internal(body, f) ==
    CASE f = "product" -> body.product
      [] f = "content" -> body.content
      [] f = "is_approved" -> (body.is_approved = "true")

\* serializer.validated_data: the sent fields among `fields`
ValidatedFields(body, fields) == {f \in fields : Sent(body, f)}

\* Comment(**validated_data) with the model defaults (is_approved=False)
NewComment(id, u, body, fields) ==
    LET vf == ValidatedFields(body, fields) IN
    [id |-> id,
     product |-> Internal(body, "product"),
     user |-> u,
     content |-> Internal(body, "content"),
     is_approved |-> IF "is_approved" \in vf
                     THEN Internal(body, "is_approved") ELSE FALSE,
     created_at |-> id]

\* ModelSerializer.update: setattr for every validated field
UpdatedComment(c, body, fields) ==
    LET vf == ValidatedFields(body, fields) IN
    [c EXCEPT
        !.product = IF "product" \in vf THEN Internal(body, "product") ELSE @,
        !.content = IF "content" \in vf THEN Internal(body, "content") ELSE @,
        !.is_approved = IF "is_approved" \in vf
                        THEN Internal(body, "is_approved") ELSE @]

\* ----------------------------------------------------------------- requests
\* the last write request: its action, its caller, its status and the id of
\* the row it acted on (0 when it acted on none)
Reply(op, u, status, id) == [op |-> op, user |-> u, status |-> status, id |-> id]

\* what a read request returns
Response(status, data) == [status |-> status, data |-> data]

\* primary keys a request may name: the ids in use and one beyond them
CommentPks == 1 .. (MaxComments + 1)

EmptyTable == [i \in {} |-> 0]

\* the parts of the state a specification leaves alone
NoComments == comments = EmptyTable /\ commentSeq = 0
NoReviews == reviews = EmptyTable /\ reviewSeq = 0
NoRequest == response = Reply("start", Anonymous, 0, 0)
NoScoring == sentText = 0 /\ sentResult = [score |-> 0, label |-> "unset"]
NoTrending ==
    /\ trending = {}
    /\ trendRun = [active |-> FALSE, products |-> {}, period |-> 1, day |-> 0]
NoTrendScore == scoreIn = 0 /\ scoreOut = [called |-> FALSE]
NoSnapshots ==
    /\ snapshots = [product |-> {}, category |-> {}]
    /\ snapshotRun = [active |-> FALSE, products |-> {}, categories |-> {},
                      day |-> 0, date |-> 0, draw |-> "low"]
NoDashboard == dashIn = 0 /\ dashOut = 0
NoKeywords == kwIn = 0 /\ kwOut = [called |-> FALSE]
NoEntry == callIn = 0 /\ callOut = [called |-> FALSE]
NoRace == inflight = {}
NoProfiles == profiles = EmptyTable
NoCore == NoKeywords /\ NoEntry /\ NoRace /\ NoProfiles
NoAnalytics == NoTrendScore /\ NoSnapshots /\ NoDashboard /\ NoCore

CommentInit ==
    NoComments /\ NoReviews /\ NoRequest /\ NoScoring /\ NoTrending /\ NoAnalytics

\* the row get_object() finds, through the caller's queryset
Visible(u, pk) == {c \in CommentGetQueryset(u) : c.id = pk}

\* a request that is refused or fails leaves the tables alone
Refuse(op, u, status) ==
    /\ response' = Reply(op, u, status, 0)
    /\ UNCHANGED <<commentVars, reviewVars, sentimentVars, trendingVars, analyticsVars>>

\* POST /api/comments/
CommentCreate(u, body) ==
    IF ~IsAuthenticated(u) THEN Refuse("create", u, DeniedStatus(u))
    ELSE IF ~IsValid(body, CommentCreateFields, FALSE) THEN Refuse("create", u, 400)
    ELSE /\ commentSeq < MaxComments
         /\ LET row == NewComment(commentSeq + 1, u, body, CommentCreateFields) IN
            /\ comments' = (row.id :> row) @@ comments
            /\ commentSeq' = row.id
            /\ response' = Reply("create", u, 201, row.id)
            /\ UNCHANGED besideComments

\* PUT (partial = FALSE) and PATCH (partial = TRUE) /api/comments/<pk>/
CommentUpdate(u, pk, body, partial) ==
    LET op == IF partial THEN "partial_update" ELSE "update" IN
    IF ~IsAuthenticated(u) THEN Refuse(op, u, DeniedStatus(u))
    ELSE IF Visible(u, pk) = {} THEN Refuse(op, u, 404)
    ELSE IF ~IsValid(body, CommentWritableFields, partial) THEN Refuse(op, u, 400)
    ELSE /\ comments' = [comments EXCEPT
                            ![pk] = UpdatedComment(@, body, CommentWritableFields)]
         /\ response' = Reply(op, u, 200, pk)
         /\ UNCHANGED <<commentSeq, besideComments>>

\* DELETE /api/comments/<pk>/
CommentDestroy(u, pk) ==
    IF ~IsAuthenticated(u) THEN Refuse("destroy", u, DeniedStatus(u))
    ELSE IF Visible(u, pk) = {} THEN Refuse("destroy", u, 404)
    ELSE /\ comments' = [i \in DOMAIN comments \ {pk} |-> comments[i]]
         /\ response' = Reply("destroy", u, 204, pk)
         /\ UNCHANGED <<commentSeq, besideComments>>

\* A plausible slip: approve flips the flag instead of setting it.
CommentApproveToggle(u, pk) ==
    IF ~IsAdminUser(u) THEN Refuse("approve", u, DeniedStatus(u))
    ELSE IF Visible(u, pk) = {} THEN Refuse("approve", u, 404)
    ELSE /\ comments' = [comments EXCEPT ![pk].is_approved = ~@]
         /\ response' = Reply("approve", u, 200, pk)
         /\ UNCHANGED <<commentSeq, besideComments>>
\* PATCH /api/comments/<pk>/approve/
CommentApprove(u, pk) ==
    IF ~IsAdminUser(u) THEN Refuse("approve", u, DeniedStatus(u))
    ELSE IF Visible(u, pk) = {} THEN Refuse("approve", u, 404)
    ELSE /\ comments' = [comments EXCEPT ![pk].is_approved = TRUE]
         /\ response' = Reply("approve", u, 200, pk)
         /\ UNCHANGED <<commentSeq, besideComments>>

\* PATCH /api/comments/<pk>/reject/
CommentReject(u, pk) ==
    IF ~IsAdminUser(u) THEN Refuse("reject", u, DeniedStatus(u))
    ELSE IF Visible(u, pk) = {} THEN Refuse("reject", u, 404)
    ELSE /\ comments' = [comments EXCEPT ![pk].is_approved = FALSE]
         /\ response' = Reply("reject", u, 200, pk)
         /\ UNCHANGED <<commentSeq, besideComments>>

\* the admin site's bulk actions on a selection of comments; the admin site
\* sends callers who are not staff to its login page
AdminBulk(u, selection, op, flag) ==
    IF ~is_staff(u) THEN Refuse(op, u, 302)
    ELSE /\ comments' = [i \in DOMAIN comments |->
                            IF i \in selection
                            THEN [comments[i] EXCEPT !.is_approved = flag]
                            ELSE comments[i]]
         /\ response' = Reply(op, u, 200, 0)
         /\ UNCHANGED <<commentSeq, besideComments>>

\* CommentAdmin.approve_comments: queryset.update(is_approved=True)
AdminApproveComments(u, selection) ==
    AdminBulk(u, selection, "admin_approve", TRUE)

\* CommentAdmin.reject_comments: queryset.update(is_approved=False)
AdminRejectComments(u, selection) ==
    AdminBulk(u, selection, "admin_reject", FALSE)

\* -------------------------------------------------------------- read requests
\* GET /api/comments/
CommentList(u) ==
    IF ~IsAuthenticated(u) THEN Response(DeniedStatus(u), <<>>)
    ELSE Response(200, CommentListRepr(OrderByCreatedDesc(CommentGetQueryset(u))))

\* GET /api/comments/<pk>/
CommentRetrieve(u, pk) ==
    IF ~IsAuthenticated(u) THEN Response(DeniedStatus(u), <<>>)
    ELSE IF Visible(u, pk) = {} THEN Response(404, <<>>)
    ELSE Response(200, <<CommentRepr(comments[pk])>>)

\* GET /api/comments/pending/
CommentPending(u) ==
    IF ~IsAdminUser(u) THEN Response(DeniedStatus(u), <<>>)
    ELSE Response(200, CommentListRepr(OrderByCreatedDesc(PendingQueryset)))

\* GET /api/comments/approved/
CommentApproved(u) ==
    IF ~IsAdminUser(u) THEN Response(DeniedStatus(u), <<>>)
    ELSE Response(200, CommentListRepr(OrderByCreatedDesc(ApprovedQueryset)))

\* GET /api/products/<pk>/comments/
ProductComments(u, pk) ==
    IF ~AllowAny(u) THEN Response(DeniedStatus(u), <<>>)
    ELSE IF pk \notin Products THEN Response(404, <<>>)
    ELSE Response(200, CommentListRepr(OrderByCreatedDesc(ProductCommentsQueryset(pk))))

\* A request refused before its body is read (no credentials, no such row)
\* is refused whatever the body: one body stands for all of them.
EmptyBody == [product |-> AbsentPk, content |-> Absent, is_approved |-> Absent]
BodiesRead(bodyIsRead) == IF bodyIsRead THEN CommentBodies ELSE {EmptyBody}

\* likewise for the selection of an admin action that is not served
Selections(served) == IF served THEN SUBSET (DOMAIN comments) ELSE {{}}

\* the requests with the bodies, selections that reach them
CommentCreateRequest(u) ==
    \E body \in BodiesRead(IsAuthenticated(u)) : CommentCreate(u, body)
CommentPutRequest(u, pk) ==
    \E body \in BodiesRead(IsAuthenticated(u) /\ Visible(u, pk) # {}) :
        CommentUpdate(u, pk, body, FALSE)
CommentPatchRequest(u, pk) ==
    \E body \in BodiesRead(IsAuthenticated(u) /\ Visible(u, pk) # {}) :
        CommentUpdate(u, pk, body, TRUE)
AdminApproveRequest(u) ==
    \E sel \in Selections(is_staff(u)) : AdminApproveComments(u, sel)
AdminRejectRequest(u) ==
    \E sel \in Selections(is_staff(u)) : AdminRejectComments(u, sel)

CommentNext ==
    \/ \E u \in Callers : CommentCreateRequest(u)
    \/ \E u \in Callers, pk \in CommentPks : CommentPutRequest(u, pk)
    \/ \E u \in Callers, pk \in CommentPks : CommentPatchRequest(u, pk)
    \/ \E u \in Callers, pk \in CommentPks : CommentDestroy(u, pk)
    \/ \E u \in Callers, pk \in CommentPks : CommentApprove(u, pk)
    \/ \E u \in Callers, pk \in CommentPks : CommentReject(u, pk)
    \/ \E u \in Callers : AdminApproveRequest(u)
    \/ \E u \in Callers : AdminRejectRequest(u)

Spec == CommentInit /\ [][CommentNext]_vars

\* ---------------------------------------------------------- sentiment scorer
\* Polarities and scores are counted in ten-thousandths: 1000 is 0.1.
PolarityUnit == 10000
\* the thresholds of analyze_sentiment, 0.1 and -0.1
PositiveAbove == 1000
NegativeBelow == -1000

\* A text is modelled by what TextBlob makes of it: the polarity it computes
\* for the text, or the failure to build a blob from it.
Unscorable == 20001
TextBlobRaises(text) == text = Unscorable
TextBlobPolarity(text) == text

\* A plausible slip: the positive threshold is not strict.
SentimentLabelInclusive(polarity) ==
    IF polarity >= PositiveAbove THEN "positive"
    ELSE IF polarity < NegativeBelow THEN "negative"
    ELSE "neutral"
\* the label analyze_sentiment gives a polarity
SentimentLabel(polarity) ==
    IF polarity > PositiveAbove THEN "positive"
    ELSE IF polarity < NegativeBelow THEN "negative"
    ELSE "neutral"

\* round(polarity, 3): the nearest thousandth; a polarity exactly between two
\* thousandths goes to the even one
Round3(polarity) ==
    LET q == polarity \div 10
        r == polarity % 10
    IN  IF r < 5 THEN 10 * q
        ELSE IF r > 5 THEN 10 * (q + 1)
        ELSE IF q % 2 = 0 THEN 10 * q ELSE 10 * (q + 1)

\* analyze_sentiment(text): (sentiment_score, sentiment_label)
analyze_sentiment(text) ==
    IF TextBlobRaises(text) THEN [score |-> 0, label |-> "neutral"]
    ELSE LET polarity == TextBlobPolarity(text) IN
         [score |-> Round3(polarity), label |-> SentimentLabel(polarity)]

\* ------------------------------------------------------------------ reviews
\* review texts, by polarity: a text without sentiment words, a praise and
\* a complaint
ReviewContents == {0, 8000, -7000}
\* a content field that is not sent, and one sent blank
AbsentText == 20002
BlankText == 20003
\* sentiment_score = None
NoScore == 20004
Ratings == 1 .. 5

\* Python truth of a float or None: None and 0.0 are false
Truthy(score) == score # NoScore /\ score # 0
\* Python truth of a string: the empty string is false
NonEmpty(text) == text # BlankText

\* Review.save: the row that is written
ReviewSave(r) ==
    IF NonEmpty(r.content) /\ ~Truthy(r.sentiment_score)
    THEN [r EXCEPT !.sentiment_score = analyze_sentiment(r.content).score,
                   !.sentiment_label = analyze_sentiment(r.content).label]
    ELSE r

\* ReviewViewSet.get_queryset
ReviewGetQueryset(u) ==
    IF is_staff(u) THEN Rows(reviews)
    ELSE {r \in Rows(reviews) : r.is_approved = TRUE \/ r.user = u}

ReviewVisible(u, pk) == {r \in ReviewGetQueryset(u) : r.id = pk}

\* A plausible slip: the table has no unique constraint.
UniqueViolationNever(row) == FALSE
\* unique_together = ['product', 'user']: the insert or update is refused by
\* the database when another row has the pair
UniqueViolation(row) ==
    \E o \in Rows(reviews) :
        o.id # row.id /\ o.product = row.product /\ o.user = row.user

\* request bodies of the review endpoints: a complete body or a single field
AbsentInt == -1
ReviewBodies ==
    [product : Products, content : ReviewContents, rating : {1, 5},
     helpful_votes : {AbsentInt}]
    \cup [product : {AbsentPk}, content : ReviewContents \cup {BlankText},
          rating : {AbsentInt}, helpful_votes : {AbsentInt}]
    \cup [product : {AbsentPk}, content : {AbsentText},
          rating : {1, 5, 6}, helpful_votes : {AbsentInt}]
    \cup [product : {AbsentPk}, content : {AbsentText},
          rating : {AbsentInt}, helpful_votes : 0 .. MaxVotes]

\* ReviewCreateSerializer.Meta.fields (title and is_verified_purchase are
\* carried along and read by nothing here)
ReviewCreateFields == {"product", "content", "rating"}
\* ReviewSerializer.Meta: fields minus read_only_fields
ReviewWritableFields == {"product", "content", "rating", "helpful_votes"}
ReviewRequired == {"product", "content", "rating"}

ReviewSent(body, f) ==
    CASE f = "product" -> body.product # AbsentPk
      [] f = "content" -> body.content # AbsentText
      [] f = "rating" -> body.rating # AbsentInt
      [] f = "helpful_votes" -> body.helpful_votes # AbsentInt

\* A plausible slip: a blank content passes validation.
ReviewFieldValidBlankContent(body, f) ==
    CASE f = "product" -> body.product \in Products
      [] f = "content" -> body.content \in ReviewContents \cup {BlankText}
      [] f = "rating" -> body.rating \in Ratings
      [] f = "helpful_votes" -> body.helpful_votes >= 0
\* validators: an existing product, a non-blank content, a rating of 1 to 5
\* (MinValueValidator, MaxValueValidator), a non-negative vote count
ReviewFieldValid(body, f) ==
    CASE f = "product" -> body.product \in Products
      [] f = "content" -> body.content \in ReviewContents
      [] f = "rating" -> body.rating \in Ratings
      [] f = "helpful_votes" -> body.helpful_votes >= 0

ReviewIsValid(body, fields, partial) ==
    \A f \in fields :
        IF ReviewSent(body, f) THEN ReviewFieldValid(body, f)
        ELSE partial \/ f \notin ReviewRequired

\* Review(**validated_data) with the model defaults
NewReview(id, u, body) ==
    [id |-> id, product |-> body.product, user |-> u, content |-> body.content,
     rating |-> body.rating, helpful_votes |-> 0, sentiment_score |-> NoScore,
     sentiment_label |-> "", is_approved |-> FALSE]

\* ModelSerializer.update: setattr for every validated field
UpdatedReview(r, body, fields) ==
    LET vf == {f \in fields : ReviewSent(body, f)} IN
    [r EXCEPT
        !.product = IF "product" \in vf THEN body.product ELSE @,
        !.content = IF "content" \in vf THEN body.content ELSE @,
        !.rating = IF "rating" \in vf THEN body.rating ELSE @,
        !.helpful_votes = IF "helpful_votes" \in vf THEN body.helpful_votes ELSE @]

ReviewPks == 1 .. (MaxReviews + 1)

ReviewInit ==
    NoComments /\ NoReviews /\ NoRequest /\ NoScoring /\ NoTrending /\ NoAnalytics

\* instance.save(): the hook, then the write
SaveReview(op, u, status, row) ==
    /\ reviews' = (row.id :> ReviewSave(row)) @@ reviews
    /\ response' = Reply(op, u, status, row.id)

\* POST /api/reviews/, while the table has taken fewer than cap rows
ReviewCreateUpTo(u, body, cap) ==
    IF ~IsAuthenticated(u) THEN Refuse("review_create", u, DeniedStatus(u))
    ELSE IF ~ReviewIsValid(body, ReviewCreateFields, FALSE)
    THEN Refuse("review_create", u, 400)
    ELSE /\ reviewSeq < cap
         /\ LET row == NewReview(reviewSeq + 1, u, body) IN
            IF UniqueViolation(row) THEN Refuse("review_create", u, 500)
            ELSE /\ SaveReview("review_create", u, 201, row)
                 /\ reviewSeq' = row.id
                 /\ UNCHANGED besideReviews

ReviewCreate(u, body) == ReviewCreateUpTo(u, body, MaxReviews)

\* PUT (partial = FALSE) and PATCH (partial = TRUE) /api/reviews/<pk>/
ReviewUpdate(u, pk, body, partial) ==
    LET op == IF partial THEN "review_partial_update" ELSE "review_update" IN
    IF ~IsAuthenticated(u) THEN Refuse(op, u, DeniedStatus(u))
    ELSE IF ReviewVisible(u, pk) = {} THEN Refuse(op, u, 404)
    ELSE IF ~ReviewIsValid(body, ReviewWritableFields, partial) THEN Refuse(op, u, 400)
    ELSE LET row == UpdatedReview(reviews[pk], body, ReviewWritableFields) IN
         IF UniqueViolation(row) THEN Refuse(op, u, 500)
         ELSE /\ row.helpful_votes <= MaxVotes
              /\ SaveReview(op, u, 200, row)
              /\ UNCHANGED <<reviewSeq, besideReviews>>

\* DELETE /api/reviews/<pk>/
ReviewDestroy(u, pk) ==
    IF ~IsAuthenticated(u) THEN Refuse("review_destroy", u, DeniedStatus(u))
    ELSE IF ReviewVisible(u, pk) = {} THEN Refuse("review_destroy", u, 404)
    ELSE /\ reviews' = [i \in DOMAIN reviews \ {pk} |-> reviews[i]]
         /\ response' = Reply("review_destroy", u, 204, pk)
         /\ UNCHANGED <<reviewSeq, besideReviews>>

\* PATCH /api/reviews/<pk>/approve/
ReviewApprove(u, pk) ==
    IF ~IsAdminUser(u) THEN Refuse("review_approve", u, DeniedStatus(u))
    ELSE IF ReviewVisible(u, pk) = {} THEN Refuse("review_approve", u, 404)
    ELSE /\ SaveReview("review_approve", u, 200,
                       [reviews[pk] EXCEPT !.is_approved = TRUE])
         /\ UNCHANGED <<reviewSeq, besideReviews>>

\* PATCH /api/reviews/<pk>/helpful/
ReviewHelpful(u, pk) ==
    IF ~IsAuthenticated(u) THEN Refuse("review_helpful", u, DeniedStatus(u))
    ELSE IF ReviewVisible(u, pk) = {} THEN Refuse("review_helpful", u, 404)
    ELSE /\ reviews[pk].helpful_votes < MaxVotes
         /\ SaveReview("review_helpful", u, 200,
                       [reviews[pk] EXCEPT !.helpful_votes = @ + 1])
         /\ UNCHANGED <<reviewSeq, besideReviews>>

EmptyReviewBody ==
    [product |-> AbsentPk, content |-> AbsentText, rating |-> AbsentInt,
     helpful_votes |-> AbsentInt]
ReviewBodiesRead(bodyIsRead) == IF bodyIsRead THEN ReviewBodies ELSE {EmptyReviewBody}

ReviewCreateRequest(u) ==
    \E body \in ReviewBodiesRead(IsAuthenticated(u)) : ReviewCreate(u, body)
ReviewPutRequest(u, pk) ==
    \E body \in ReviewBodiesRead(IsAuthenticated(u) /\ ReviewVisible(u, pk) # {}) :
        ReviewUpdate(u, pk, body, FALSE)
ReviewPatchRequest(u, pk) ==
    \E body \in ReviewBodiesRead(IsAuthenticated(u) /\ ReviewVisible(u, pk) # {}) :
        ReviewUpdate(u, pk, body, TRUE)

ReviewNext ==
    \/ \E u \in Callers : ReviewCreateRequest(u)
    \/ \E u \in Callers, pk \in ReviewPks : ReviewPutRequest(u, pk)
    \/ \E u \in Callers, pk \in ReviewPks : ReviewPatchRequest(u, pk)
    \/ \E u \in Callers, pk \in ReviewPks : ReviewDestroy(u, pk)
    \/ \E u \in Callers, pk \in ReviewPks : ReviewApprove(u, pk)
    \/ \E u \in Callers, pk \in ReviewPks : ReviewHelpful(u, pk)

SpecReview == ReviewInit /\ [][ReviewNext]_vars

\* ------------------------------------------------- scoring a text on its own
\* The texts handed to analyze_sentiment: every polarity from -1 to 1 in steps
\* of a ten-thousandth, and an input TextBlob cannot take. A polarity whose
\* fourth decimal is 5 rounds by the binary value of the float and is left out.
SentimentInputs ==
    {p \in (0 - PolarityUnit) .. PolarityUnit : p % 10 # 5} \cup {Unscorable}

SentimentInit ==
    /\ sentText \in SentimentInputs
    /\ sentResult = [score |-> 0, label |-> "unset"]
    /\ NoComments /\ NoReviews /\ NoRequest /\ NoTrending /\ NoAnalytics

\* a call of analyze_sentiment(text)
AnalyzeSentiment ==
    /\ sentResult.label = "unset"
    /\ sentResult' = analyze_sentiment(sentText)
    /\ UNCHANGED <<sentText, commentVars, reviewVars, response, trendingVars, analyticsVars>>

SentimentNext == AnalyzeSentiment

SpecSentiment == SentimentInit /\ [][SentimentNext]_vars

\* ------------------------------------------------------- trending generation
\* the loops of create_trending_products
periods == <<"daily", "weekly", "monthly">>
\* days of history each run fills, today and the days before it
TrendDays == 1
\* random.sample(products, min(len(products), 20))
TrendSampleSize == 20
\* timezone.now().date() while the runs last
Today == 0
\* values of round(random.uniform(0, 1), 3), in thousandths
TrendScores == {300, 800}

Min(a, b) == IF a < b THEN a ELSE b

\* random.sample(population, k): the sequences of k distinct members
Samples(population, k) ==
    {f \in [1 .. k -> population] : \A i, j \in 1 .. k : i # j => f[i] # f[j]}

\* TrendingProduct.objects.get_or_create(product, period, date, defaults):
\* a row with the key is left as it is, otherwise one is inserted
TrendingGetOrCreate(table, product, period, date, defaults) ==
    IF \E r \in table : r.product = product /\ r.period = period /\ r.date = date
    THEN table
    ELSE table \cup {[product |-> product, period |-> period, date |-> date,
                      trend_score |-> defaults.trend_score, rank |-> defaults.rank]}

\* for rank, product in enumerate(trending_products, 1): get_or_create(...)
RECURSIVE EnumerateInto(_, _, _, _, _, _)
EnumerateInto(table, sample, scores, period, date, rank) ==
    IF rank > Len(sample) THEN table
    ELSE EnumerateInto(
             TrendingGetOrCreate(table, sample[rank], period, date,
                                 [trend_score |-> scores[rank], rank |-> rank]),
             sample, scores, period, date, rank + 1)

TrendingInit ==
    NoComments /\ NoReviews /\ NoRequest /\ NoScoring /\ NoTrending /\ NoAnalytics

\* a call of create_trending_products(products)
TrendingStart(products) ==
    /\ ~trendRun.active
    /\ trendRun' = [active |-> TRUE, products |-> products, period |-> 1, day |-> 0]
    /\ UNCHANGED <<trending, commentVars, reviewVars, response, sentimentVars, analyticsVars>>

\* one pass of the inner loop: the entries of one (period, date)
TrendingIteration ==
    /\ trendRun.active
    /\ LET period == periods[trendRun.period]
           date == Today - trendRun.day
           k == Min(Cardinality(trendRun.products), TrendSampleSize)
       IN  \E sample \in Samples(trendRun.products, k) :
           \E scores \in [1 .. k -> TrendScores] :
               trending' = EnumerateInto(trending, sample, scores, period, date, 1)
    /\ trendRun' =
           IF trendRun.day + 1 < TrendDays
           THEN [trendRun EXCEPT !.day = @ + 1]
           ELSE IF trendRun.period < Len(periods)
           THEN [trendRun EXCEPT !.period = @ + 1, !.day = 0]
           ELSE [active |-> FALSE, products |-> {}, period |-> 1, day |-> 0]
    /\ UNCHANGED <<commentVars, reviewVars, response, sentimentVars, analyticsVars>>

TrendingNext ==
    \/ \E products \in SUBSET Products : TrendingStart(products)
    \/ TrendingIteration

SpecTrending == TrendingInit /\ [][TrendingNext]_vars

\* ---------------------------------------------------------------- trend score
\* Fractions: the floats of calculate_trend_score are kept exact, as a
\* numerator over a positive denominator, until round() is applied.
RECURSIVE GCD(_, _)
GCD(a, b) == IF b = 0 THEN a ELSE GCD(b, a % b)
Abs(n) == IF n < 0 THEN 0 - n ELSE n
\* n / d in lowest terms
Rat(n, d) ==
    LET g == GCD(Abs(n), d) IN [n |-> n \div g, d |-> d \div g]
RatLeq(a, b) == a.n * b.d <= b.n * a.d
RatEq(a, b) == a.n * b.d = b.n * a.d
RatMin(a, b) == IF RatLeq(a, b) THEN a ELSE b
RatAdd(a, b) == Rat(a.n * b.d + b.n * a.d, a.d * b.d)
\* a * (n / d)
RatTimes(a, n, d) == Rat(a.n * n, a.d * d)

\* round(x, 3) in thousandths: the nearest thousandth, the even one on a tie
RoundThousandths(x) ==
    LET num == 1000 * x.n
        q == num \div x.d
        r == num % x.d
    IN  IF 2 * r < x.d THEN q
        ELSE IF 2 * r > x.d THEN q + 1
        ELSE IF q % 2 = 0 THEN q ELSE q + 1

\* the sum of a column over a set of rows
RECURSIVE SumOf(_, _)
SumOf(rows, column) ==
    IF rows = {} THEN 0
    ELSE LET r == CHOOSE x \in rows : TRUE
         IN  r[column] + SumOf(rows \ {r}, column)

\* Snapshot columns hold average_rating in hundredths and average_sentiment
\* in thousandths.
RatingUnit == 100
SentimentUnit == 1000
\* the aggregate of a column over no rows: no fraction has denominator 0
None == [n |-> 0, d |-> 0]

\* Avg(column) over a queryset: None over no rows
Avg(rows, column, unit) ==
    IF rows = {} THEN None
    ELSE Rat(SumOf(rows, column), unit * Cardinality(rows))
\* Count(column) over a queryset: the rows whose column is not null
Count(rows, column) == Cardinality(rows)
\* Python's `x or 0`
OrZero(x) == IF x = None \/ x.n = 0 THEN Rat(0, 1) ELSE x

\* product.reviews.filter(created_at__date__gte=start_date, is_approved=True)
\* over the reviews of the product: a sequence of [created_at, is_approved]
RecentReviews(reviewRows, start_date) ==
    {i \in DOMAIN reviewRows :
        reviewRows[i].created_at >= start_date /\ reviewRows[i].is_approved}

\* ProductAnalytics.objects.filter(product=product, date__gte=start_date)
\* .aggregate(total_views=Count('views'), avg_rating=Avg('average_rating'),
\*            avg_sentiment=Avg('average_sentiment'))
RecentAnalytics(analytics, start_date) ==
    LET rows == {a \in analytics : a.date >= start_date}
    IN  [total_views |-> Count(rows, "views"),
         avg_rating |-> Avg(rows, "average_rating", RatingUnit),
         avg_sentiment |-> Avg(rows, "average_sentiment", SentimentUnit)]

\* the components of the score
review_count_score(count) == RatMin(Rat(count, 10), Rat(1, 1))
\* A plausible slip: the rating is not normalised.
rating_score_unscaled(avg_rating) == OrZero(avg_rating)
rating_score(avg_rating) == RatTimes(OrZero(avg_rating), 1, 5)
\* A plausible slip: a missing sentiment counts as the lowest one.
sentiment_score_missing_lowest(avg_sentiment) ==
    IF avg_sentiment = None THEN Rat(0, 1)
    ELSE RatTimes(RatAdd(avg_sentiment, Rat(1, 1)), 1, 2)
sentiment_score(avg_sentiment) ==
    RatTimes(RatAdd(OrZero(avg_sentiment), Rat(1, 1)), 1, 2)
view_score(total_views) == RatMin(Rat(total_views, 100), Rat(1, 1))

\* calculate_trend_score(product, days): the components and the score it
\* returns, in thousandths; 0.0 when the body raises
calculate_trend_score(in) ==
    IF in.raises
    THEN [called |-> TRUE, raised |-> TRUE, trend_score |-> 0]
    ELSE
    LET start_date == Today - in.days
        recent_reviews == RecentReviews(in.reviews, start_date)
        recent_analytics == RecentAnalytics(in.analytics, start_date)
        rc == review_count_score(Cardinality(recent_reviews))
        rt == rating_score(recent_analytics.avg_rating)
        st == sentiment_score(recent_analytics.avg_sentiment)
        vw == view_score(recent_analytics.total_views)
        trend == RatAdd(RatAdd(RatTimes(rc, 30, 100), RatTimes(rt, 25, 100)),
                        RatAdd(RatTimes(st, 25, 100), RatTimes(vw, 20, 100)))
    IN  [called |-> TRUE, raised |-> FALSE,
         review_count_score |-> rc, rating_score |-> rt,
         sentiment_score |-> st, view_score |-> vw,
         trend_score |-> RoundThousandths(trend)]

\* ------------------------------------------- scoring a product on its own
\* approved reviews of the product written today, at most
MaxWindowReviews == 11
\* snapshot rows of the product, at most
MaxSnapshotRows == 2
\* the default window and a longer one
DefaultDays == 7
WindowDays == {DefaultDays, 30}
\* snapshot dates: today, the first day of the default window, the day before
SnapshotDates == {Today, Today - DefaultDays, Today - DefaultDays - 1}
SnapshotViews == {0, 100}
SnapshotRatings == {0, 250, 500}
SnapshotSentiments == {-1000, 1000}

\* n approved reviews written today
RECURSIVE ApprovedToday(_)
ApprovedToday(n) ==
    IF n = 0 THEN <<>>
    ELSE Append(ApprovedToday(n - 1), [created_at |-> Today, is_approved |-> TRUE])
\* one more review: none, an unapproved one, one on the first day of the
\* default window, one from before it
OtherReviews ==
    { <<>>,
      <<[created_at |-> Today, is_approved |-> FALSE]>>,
      <<[created_at |-> Today - DefaultDays, is_approved |-> TRUE]>>,
      <<[created_at |-> Today - DefaultDays - 1, is_approved |-> TRUE]>> }
ReviewTables ==
    {ApprovedToday(n) \o other : n \in 0 .. MaxWindowReviews, other \in OtherReviews}

SnapshotValues ==
    [views : SnapshotViews, average_rating : SnapshotRatings,
     average_sentiment : SnapshotSentiments]
SnapshotRow(date, v) ==
    [date |-> date, views |-> v.views, average_rating |-> v.average_rating,
     average_sentiment |-> v.average_sentiment]
\* unique_together (product, date): one row of the product per date
AnalyticsTables ==
    UNION { { {SnapshotRow(d, f[d]) : d \in dates} : f \in [dates -> SnapshotValues] } :
            dates \in {x \in SUBSET SnapshotDates : Cardinality(x) <= MaxSnapshotRows} }

TrendScoreInputs ==
    [days : WindowDays, reviews : ReviewTables, analytics : AnalyticsTables,
     raises : {FALSE}]
    \cup {[days |-> DefaultDays, reviews |-> <<>>, analytics |-> {}, raises |-> TRUE]}

NotCalled == [called |-> FALSE]

TrendScoreInit ==
    /\ scoreIn \in TrendScoreInputs
    /\ scoreOut = NotCalled
    /\ NoComments /\ NoReviews /\ NoRequest /\ NoScoring /\ NoTrending
    /\ NoSnapshots /\ NoDashboard /\ NoCore

\* a call of calculate_trend_score(product, days)
CalculateTrendScore ==
    /\ ~scoreOut.called
    /\ scoreOut' = calculate_trend_score(scoreIn)
    /\ UNCHANGED <<scoreIn, commentVars, reviewVars, response, sentimentVars,
                   trendingVars, snapshotVars, dashVars, coreVars>>

TrendScoreNext == CalculateTrendScore

SpecTrendScore == TrendScoreInit /\ [][TrendScoreNext]_vars

\* ------------------------------------------------------- snapshot generation
Categories == {"Electronics", "Books"}
\* days of history each run of create_analytics_data fills
SnapshotDays == 1
\* random.sample(products, min(len(products), 50))
SnapshotSampleSize == 50

\* The random values of one pass of the loop, as one of two draws: the low
\* ends and the high ends of the ranges (ratings in hundredths, sentiments
\* and rates in thousandths). Every row a pass creates takes the pass's draw.
Draws == {"low", "high"}
ProductDefaults(draw) ==
    IF draw = "low"
    THEN [views |-> 10, reviews_count |-> 0, average_rating |-> 100,
          average_sentiment |-> -1000, conversion_rate |-> 0]
    ELSE [views |-> 500, reviews_count |-> 20, average_rating |-> 500,
          average_sentiment |-> 1000, conversion_rate |-> 300]
\* [random.choice(products).id for _ in range(5)]
TopProducts(p) == [i \in 1 .. 5 |-> p]
CategoryDefaults(draw, products) ==
    IF draw = "low"
    THEN [total_products |-> 5, total_reviews |-> 20, average_rating |-> 200,
          average_sentiment |-> -500,
          top_products |-> TopProducts(CHOOSE p \in products : \A q \in products : p <= q)]
    ELSE [total_products |-> 30, total_reviews |-> 200, average_rating |-> 500,
          average_sentiment |-> 800,
          top_products |-> TopProducts(CHOOSE p \in products : \A q \in products : p >= q)]

\* A plausible slip: the row is inserted without looking for the key.
ProductAnalyticsCreate(table, product, date, defaults) ==
    table \cup {[product |-> product, date |-> date] @@ defaults}
\* ProductAnalytics.objects.get_or_create(product, date, defaults)
ProductAnalyticsGetOrCreate(table, product, date, defaults) ==
    IF \E r \in table : r.product = product /\ r.date = date
    THEN table
    ELSE table \cup {[product |-> product, date |-> date] @@ defaults}

\* CategoryAnalytics.objects.get_or_create(category, date, defaults)
CategoryAnalyticsGetOrCreate(table, category, date, defaults) ==
    IF \E r \in table : r.category = category /\ r.date = date
    THEN table
    ELSE table \cup {[category |-> category, date |-> date] @@ defaults}

\* the loop over the sampled products; with at most 50 products the sample
\* holds them all, and the rows of a pass do not depend on its order
RECURSIVE ProductPass(_, _, _, _)
ProductPass(table, products, date, defaults) ==
    IF products = {} THEN table
    ELSE LET p == CHOOSE x \in products : TRUE
         IN  ProductPass(ProductAnalyticsGetOrCreate(table, p, date, defaults),
                         products \ {p}, date, defaults)

\* the loop over the categories
RECURSIVE CategoryPass(_, _, _, _)
CategoryPass(table, categories, date, defaults) ==
    IF categories = {} THEN table
    ELSE LET c == CHOOSE x \in categories : TRUE
         IN  CategoryPass(CategoryAnalyticsGetOrCreate(table, c, date, defaults),
                          categories \ {c}, date, defaults)

Idle == [active |-> FALSE, products |-> {}, categories |-> {}, day |-> 0,
         date |-> Today, draw |-> "low"]

SnapshotInit ==
    /\ NoComments /\ NoReviews /\ NoRequest /\ NoScoring /\ NoTrending
    /\ NoTrendScore /\ NoSnapshots /\ NoDashboard /\ NoCore

\* a call of create_analytics_data(products, categories)
SnapshotStart(products, categories) ==
    /\ ~snapshotRun.active
    /\ Cardinality(products) <= SnapshotSampleSize
    /\ snapshotRun' = [Idle EXCEPT !.active = TRUE, !.products = products,
                                   !.categories = categories]
    /\ UNCHANGED <<snapshots, commentVars, reviewVars, response, sentimentVars,
                   trendingVars, scoreVars, dashVars, coreVars>>

\* one pass of the loop over the days: the rows of one date. With categories
\* and no product, random.choice(products) raises and ends the run.
SnapshotIteration ==
    /\ snapshotRun.active
    /\ \E draw \in Draws :
        LET date == Today - snapshotRun.day
            products == snapshotRun.products
            categories == snapshotRun.categories
            raises == categories # {} /\ products = {}
        IN  /\ snapshots' =
                   IF raises THEN snapshots
                   ELSE [product |-> ProductPass(snapshots.product, products, date,
                                                 ProductDefaults(draw)),
                         category |-> IF categories = {} THEN snapshots.category
                                      ELSE CategoryPass(snapshots.category, categories, date,
                                                        CategoryDefaults(draw, products))]
            /\ snapshotRun' =
                   IF raises THEN Idle
                   ELSE [snapshotRun EXCEPT
                            !.active = snapshotRun.day + 1 < SnapshotDays,
                            !.day = IF snapshotRun.day + 1 < SnapshotDays THEN @ + 1 ELSE @,
                            !.date = date, !.draw = draw]
    /\ UNCHANGED <<commentVars, reviewVars, response, sentimentVars,
                   trendingVars, scoreVars, dashVars, coreVars>>

SnapshotNext ==
    \/ \E products \in SUBSET Products, categories \in SUBSET Categories :
           SnapshotStart(products, categories)
    \/ SnapshotIteration

SpecSnapshot == SnapshotInit /\ [][SnapshotNext]_vars

\* ------------------------------------------- one review per user and product
\* review rows ever inserted while the pairs are watched
MaxPairReviews == 3
\* bodies that name a product: a complete review, and a change of product
PairCreateBodies ==
    [product : Products, content : {8000}, rating : {5}, helpful_votes : {AbsentInt}]
PairMoveBodies ==
    [product : Products, content : {AbsentText}, rating : {AbsentInt},
     helpful_votes : {AbsentInt}]
PairPks == 1 .. MaxPairReviews

\* one pass of the loop of create_reviews(users, products, count): a random
\* user and product; a pair that has a review is skipped, otherwise
\* Review.objects.create(...) with a random rating, one of the texts written
\* for that rating and a random approval (no helpful votes), while the table
\* has taken fewer than cap rows
CreateReviewsIterationUpTo(u, p, approved, rating, content, cap) ==
    /\ reviewSeq < cap
    /\ IF \E r \in Rows(reviews) : r.user = u /\ r.product = p
       THEN UNCHANGED reviewVars
       ELSE LET row == [id |-> reviewSeq + 1, product |-> p, user |-> u,
                        content |-> content, rating |-> rating,
                        helpful_votes |-> 0,
                        sentiment_score |-> NoScore, sentiment_label |-> "",
                        is_approved |-> approved]
            IN  /\ reviews' = (row.id :> ReviewSave(row)) @@ reviews
                /\ reviewSeq' = row.id
    /\ UNCHANGED <<response, besideReviews>>
\* a pass that draws rating 5 and a positive text
CreateReviewsIteration(u, p, approved) ==
    CreateReviewsIterationUpTo(u, p, approved, 5, 8000, MaxPairReviews)

PairCreateRequest(u) ==
    \E body \in PairCreateBodies : ReviewCreateUpTo(u, body, MaxPairReviews)
PairMoveRequest(u, pk) ==
    \E body \in PairMoveBodies : ReviewUpdate(u, pk, body, TRUE)

ReviewPairsNext ==
    \/ \E u \in Callers : PairCreateRequest(u)
    \/ \E u \in Callers, pk \in PairPks : PairMoveRequest(u, pk)
    \/ \E u \in Callers, pk \in PairPks : ReviewDestroy(u, pk)
    \/ \E u \in Users, p \in Products, approved \in BOOLEAN :
           CreateReviewsIteration(u, p, approved)

SpecReviewPairs == ReviewInit /\ [][ReviewPairsNext]_vars

\* ------------------------------------------------------------- dashboard
\* generate_dashboard_data (utils.py) reads the clock and the Product,
\* Category and Review tables and returns a mapping.  Dates are calendar
\* dates [y, m, d]; datetime arithmetic goes through the day number, as
\* Python's date.toordinal / date.fromordinal do.

IsLeap(y) == (y % 4 = 0 /\ y % 100 # 0) \/ y % 400 = 0
DaysInMonth(y, m) ==
    IF m = 2 THEN (IF IsLeap(y) THEN 29 ELSE 28)
    ELSE IF m \in {4, 6, 9, 11} THEN 30 ELSE 31
\* days of the years before y
DaysBeforeYear(y) ==
    (y - 1) * 365 + (y - 1) \div 4 - (y - 1) \div 100 + (y - 1) \div 400
\* days of year y before its month m
RECURSIVE DaysBeforeMonth(_, _)
DaysBeforeMonth(y, m) ==
    IF m = 1 THEN 0 ELSE DaysBeforeMonth(y, m - 1) + DaysInMonth(y, m - 1)
Date(y, m, d) == [y |-> y, m |-> m, d |-> d]
toordinal(date) ==
    DaysBeforeYear(date.y) + DaysBeforeMonth(date.y, date.m) + date.d
\* the year holding day number n, searched upwards from an underestimate
RECURSIVE YearOf(_, _)
YearOf(n, y) == IF n <= DaysBeforeYear(y + 1) THEN y ELSE YearOf(n, y + 1)
\* the month of year y holding the k-th day of that year
RECURSIVE MonthOf(_, _, _)
MonthOf(y, k, m) ==
    IF k <= DaysBeforeMonth(y, m) + DaysInMonth(y, m) THEN m
    ELSE MonthOf(y, k, m + 1)
fromordinal(n) ==
    LET y == YearOf(n, n \div 366)
        k == n - DaysBeforeYear(y)
        m == MonthOf(y, k, 1)
    IN  Date(y, m, k - DaysBeforeMonth(y, m))
\* date - timedelta(days=n), date + timedelta(days=n), date.replace(day=d)
MinusDays(date, n) == fromordinal(toordinal(date) - n)
PlusDays(date, n) == fromordinal(toordinal(date) + n)
ReplaceDay(date, d) == Date(date.y, date.m, d)
\* strftime('%Y-%m')
YearMonth(date) == [y |-> date.y, m |-> date.m]
\* created_at__date__gte=a, created_at__date__lte=b
DateBetween(date, a, b) ==
    toordinal(a) <= toordinal(date) /\ toordinal(date) <= toordinal(b)

\* the months of the timeline and how far apart the code takes them to be
TimelineMonths == 12
MonthStride == 30

\* the i-th pass of the timeline loop: month_start, month_end
month_start(now, i) == MinusDays(ReplaceDay(now, 1), MonthStride * i)
month_end(start) ==
    LET later == PlusDays(ReplaceDay(start, 28), 4)
    IN  MinusDays(later, later.d)

\* Review.objects.filter(created_at__date__gte=..., created_at__date__lte=...,
\*                       is_approved=True)
MonthReviews(reviewRows, start, end) ==
    {r \in reviewRows : DateBetween(r.created_at, start, end) /\ r.is_approved}

\* one timeline entry; avg_rating and avg_sentiment are `... or 0`
TimelineEntry(reviewRows, now, i) ==
    LET start == month_start(now, i)
        month_reviews == MonthReviews(reviewRows, start, month_end(start))
    IN  [month |-> YearMonth(start),
         reviews |-> Cardinality(month_reviews),
         avg_rating |-> OrZero(Avg(month_reviews, "rating", 1)),
         avg_sentiment |->
             OrZero(Avg(month_reviews, "sentiment_score", SentimentUnit))]
\* timeline_data.insert(0, ...) for i = 0 .. 11: the last pass comes first
Timeline(reviewRows, now) ==
    [k \in 1 .. TimelineMonths |->
        TimelineEntry(reviewRows, now, TimelineMonths - k)]

\* a foreign key that is NULL in a row of a LEFT JOIN
NullPk == 0
\* the reviews of a listing: the join Product -> reviews
ReviewsOf(reviewRows, productId) == {r \in reviewRows : r.product = productId}
\* A plausible slip: the count leaves out the approval filter.
ApprovedCountAll(rows) == Cardinality(rows)
\* Count('reviews', filter=Q(reviews__is_approved=True))
ApprovedCount(rows) == Cardinality({r \in rows : r.is_approved})

\* Product.objects.annotate(avg_rating=Avg('reviews__rating'),
\*                          review_count=Count('reviews', filter=...))
ProductAnnotate(productRows, reviewRows) ==
    {[id |-> p.id,
      avg_rating |-> Avg(ReviewsOf(reviewRows, p.id), "rating", 1),
      review_count |-> ApprovedCount(ReviewsOf(reviewRows, p.id))]
       : p \in productRows}

\* the rows Category LEFT JOIN canonicalproduct LEFT JOIN listings LEFT JOIN
\* reviews yields for one category: one per review of each listing, one with
\* a NULL review for a listing without reviews, one with a NULL listing for a
\* category without listings
CategoryJoin(c, productRows, reviewRows) ==
    LET listings == {p \in productRows : p.category = c}
    IN  IF listings = {} THEN {[listing |-> NullPk, review |-> NullPk]}
        ELSE UNION {
            IF ReviewsOf(reviewRows, p.id) = {}
            THEN {[listing |-> p.id, review |-> NullPk]}
            ELSE {[listing |-> p.id, review |-> r.id]
                    : r \in ReviewsOf(reviewRows, p.id)}
            : p \in listings}
\* Category.objects.annotate(product_count=Count('canonicalproduct__listings'),
\*     review_count=Count('canonicalproduct__listings__reviews', filter=...),
\*     avg_rating=Avg('canonicalproduct__listings__reviews__rating'))
CategoryAnnotate(categoryRows, productRows, reviewRows) ==
    {LET joined == CategoryJoin(c, productRows, reviewRows)
         reviewed == {r \in reviewRows :
                         \E j \in joined : j.review = r.id}
     IN  [id |-> c,
          product_count |-> Cardinality({j \in joined : j.listing # NullPk}),
          review_count |-> ApprovedCount(reviewed),
          avg_rating |-> Avg(reviewed, "rating", 1)]
       : c \in categoryRows}

\* the database leaves the order of rows with equal keys open; the two
\* outcomes modelled are ties by ascending and by descending id
Ties == {"id_asc", "id_desc"}
TieBefore(a, b, tie) == IF tie = "id_asc" THEN a.id <= b.id ELSE a.id >= b.id
\* order_by('-avg_rating'): a NULL average sorts as the smallest value
AvgRatingBefore(a, b, tie) ==
    IF a.avg_rating = None \/ b.avg_rating = None
    THEN IF a.avg_rating = None /\ b.avg_rating = None THEN TieBefore(a, b, tie)
         ELSE b.avg_rating = None
    ELSE IF RatEq(a.avg_rating, b.avg_rating) THEN TieBefore(a, b, tie)
         ELSE RatLeq(b.avg_rating, a.avg_rating)
RECURSIVE OrderByAvgRatingDesc(_, _)
OrderByAvgRatingDesc(rows, tie) ==
    IF rows = {} THEN <<>>
    ELSE LET first == CHOOSE x \in rows :
                          \A y \in rows : AvgRatingBefore(x, y, tie)
         IN  <<first>> \o OrderByAvgRatingDesc(rows \ {first}, tie)
\* order_by('-review_count')
ReviewCountBefore(a, b, tie) ==
    IF a.review_count = b.review_count THEN TieBefore(a, b, tie)
    ELSE a.review_count > b.review_count
RECURSIVE OrderByReviewCountDesc(_, _)
OrderByReviewCountDesc(rows, tie) ==
    IF rows = {} THEN <<>>
    ELSE LET first == CHOOSE x \in rows :
                          \A y \in rows : ReviewCountBefore(x, y, tie)
         IN  <<first>> \o OrderByReviewCountDesc(rows \ {first}, tie)
\* queryset[:n]
Slice(rows, n) == SubSeq(rows, 1, IF Len(rows) < n THEN Len(rows) ELSE n)

\* the limits of the two rankings
MinReviewCount == 3
RankingLimit == 10
\* top_products and category_stats of generate_dashboard_data
top_products(productRows, reviewRows, tie) ==
    Slice(OrderByAvgRatingDesc(
              {p \in ProductAnnotate(productRows, reviewRows) :
                  p.review_count >= MinReviewCount}, tie),
          RankingLimit)
category_stats(categoryRows, productRows, reviewRows, tie) ==
    Slice(OrderByReviewCountDesc(
              CategoryAnnotate(categoryRows, productRows, reviewRows), tie),
          RankingLimit)

\* the recent activity window
RecentDays == 30
\* Review.objects.filter(created_at__gte=thirty_days_ago, is_approved=True),
\* the clock read at the time of day the rows were created at
RecentApproved(reviewRows, now) ==
    {r \in reviewRows :
        toordinal(r.created_at) >= toordinal(now) - RecentDays
        /\ r.is_approved}
LabelCount(rows, label) == Cardinality({r \in rows : r.sentiment_label = label})

\* generate_dashboard_data(): the mapping it returns (keywords apart)
generate_dashboard_data(in, tie) ==
    LET recent_reviews == RecentApproved(in.reviews, in.now)
    IN  [called |-> TRUE,
         overview |->
             [total_products |-> Cardinality(in.products),
              total_reviews |-> ApprovedCount(in.reviews),
              total_users |-> Cardinality(in.users),
              total_categories |-> Cardinality(in.categories),
              recent_reviews |-> Cardinality(recent_reviews)],
         sentiment |->
             [average |-> RoundThousandths(OrZero(
                  Avg(recent_reviews, "sentiment_score", SentimentUnit))),
              positive |-> LabelCount(recent_reviews, "positive"),
              negative |-> LabelCount(recent_reviews, "negative"),
              neutral |-> LabelCount(recent_reviews, "neutral")],
         top_products |-> top_products(in.products, in.reviews, tie),
         category_stats |->
             category_stats(in.categories, in.products, in.reviews, tie),
         timeline |-> Timeline(in.reviews, in.now)]

\* ---- the stores the dashboard is computed on
\* most reviews one listing has; reviewer j wrote the j-th review of every
\* listing, so no two reviews share (product, user)
MaxProfileReviews == 5
Reviewers == 1 .. MaxProfileReviews
Approved(rating) == [rating |-> rating, is_approved |-> TRUE]
Unapproved(rating) == [rating |-> rating, is_approved |-> FALSE]
\* the reviews of one listing, by name
Profile(name) ==
    CASE name = "none" -> <<>>
      [] name = "top" -> <<Approved(5), Approved(5), Approved(5)>>
      [] name = "mixed" ->
             <<Approved(4), Approved(4), Approved(4), Unapproved(1)>>
      [] name = "few" ->
             <<Approved(5), Approved(5),
               Unapproved(5), Unapproved(5), Unapproved(5)>>
      [] name = "mid" -> <<Approved(3), Approved(3), Approved(3), Approved(3)>>
      [] name = "low" ->
             <<Approved(1), Approved(1), Approved(1), Approved(1), Approved(1)>>
ProfileNames == {"none", "top", "mixed", "few", "mid", "low"}
\* the label and score Review.save stored for a review of that rating
LabelOfRating(rating) ==
    IF rating >= 4 THEN "positive" ELSE IF rating <= 2 THEN "negative"
    ELSE "neutral"
ScoreOfRating(rating) == (rating - 3) * 250
\* ids of the Product and Category tables
MaxDashProducts == 12
MaxDashCategories == 11
ProductCounts == {2, MaxDashProducts - 1, MaxDashProducts}
CategoryCounts == {2, MaxDashCategories}
\* listing p of n hangs under category ((p - 1) mod n) + 1
ProductRows(products, categories) ==
    {[id |-> p, category |-> ((p - 1) % categories) + 1] : p \in 1 .. products}
\* the Review rows of listing p with the named profile, all created on a date
ReviewRows(p, name, created_at) ==
    {[id |-> (p - 1) * MaxProfileReviews + j,
      product |-> p,
      user |-> j,
      rating |-> Profile(name)[j].rating,
      is_approved |-> Profile(name)[j].is_approved,
      sentiment_label |-> LabelOfRating(Profile(name)[j].rating),
      sentiment_score |-> ScoreOfRating(Profile(name)[j].rating),
      created_at |-> created_at] : j \in DOMAIN Profile(name)}

\* the clocks: the first, the 15th and the last day of each month of a leap
\* year and of the year after it
ClockYears == {2024, 2025}
Clocks ==
    {Date(y, m, d) : y \in ClockYears, m \in 1 .. 12, d \in {1, 15}}
    \cup {Date(y, m, DaysInMonth(y, m)) : y \in ClockYears, m \in 1 .. 12}
RankingClock == Date(2025, 6, 15)
\* how long before the clock the review of a timeline store was created
ReviewAges == {0, 30, 61, 200}

\* stores for the rankings: listings 1 and 2 have a profile of their own, every
\* other listing has the base profile
RankingInputs ==
    {[now |-> RankingClock,
      users |-> Reviewers,
      categories |-> 1 .. c,
      products |-> ProductRows(n, c),
      reviews |-> UNION {ReviewRows(p, IF p = 1 THEN first
                                       ELSE IF p = 2 THEN second ELSE base,
                                    RankingClock) : p \in 1 .. n}]
       : n \in ProductCounts, c \in CategoryCounts, base \in ProfileNames,
         first \in ProfileNames, second \in ProfileNames}
\* stores for the timeline: one approved and one unapproved review of listing
\* 1, created some days before the clock
TimelineInputs ==
    {[now |-> now,
      users |-> Reviewers,
      categories |-> 1 .. 2,
      products |-> ProductRows(2, 2),
      reviews |->
          {r \in ReviewRows(1, "mixed", MinusDays(now, age)) : r.user >= 3}]
       : now \in Clocks, age \in ReviewAges}
DashboardInputs == RankingInputs \cup TimelineInputs

DashboardInit ==
    /\ dashIn \in DashboardInputs
    /\ dashOut = NotCalled
    /\ NoComments /\ NoReviews /\ NoRequest /\ NoScoring /\ NoTrending
    /\ NoTrendScore /\ NoSnapshots /\ NoCore

\* a request to the dashboard endpoint: the store is read once
GenerateDashboardData ==
    /\ ~dashOut.called
    /\ \E tie \in Ties : dashOut' = generate_dashboard_data(dashIn, tie)
    /\ UNCHANGED <<dashIn, commentVars, reviewVars, response, sentimentVars,
                   trendingVars, scoreVars, snapshotVars, coreVars>>

DashboardNext == GenerateDashboardData
SpecDashboard == DashboardInit /\ [][DashboardNext]_vars

\* -------------------------------------------------- public product fields
\* ProductSerializer reads average_rating, review_count and sentiment_score
\* from the methods of Product (models.py); self.reviews is every review of
\* the listing.
RoundHundredths(x) ==
    LET num == 100 * x.n
        q == num \div x.d
        r == num % x.d
    IN  IF 2 * r < x.d THEN q
        ELSE IF 2 * r > x.d THEN q + 1
        ELSE IF q % 2 = 0 THEN q ELSE q + 1
\* Product.get_average_rating, in hundredths
get_average_rating(reviewRows, productId) ==
    LET avg_rating == Avg(ReviewsOf(reviewRows, productId), "rating", 1)
    IN  IF avg_rating = None \/ avg_rating.n = 0 THEN 0
        ELSE RoundHundredths(avg_rating)
\* Product.get_review_count
get_review_count(reviewRows, productId) ==
    Cardinality(ReviewsOf(reviewRows, productId))
\* Product.get_sentiment_score, in thousandths; every stored row of the model
\* has a sentiment_score
get_sentiment_score(reviewRows, productId) ==
    LET rows == ReviewsOf(reviewRows, productId)
        avg_sentiment == Avg(rows, "sentiment_score", SentimentUnit)
    IN  IF rows = {} THEN 0
        ELSE IF avg_sentiment.n = 0 THEN 0
        ELSE RoundThousandths(avg_sentiment)
\* the three computed fields of ProductSerializer
ProductPublicFields(reviewRows, productId) ==
    [average_rating |-> get_average_rating(reviewRows, productId),
     review_count |-> get_review_count(reviewRows, productId),
     sentiment_score |-> get_sentiment_score(reviewRows, productId)]

\* ------------------------------------------------------------- keywords
\* extract_keywords (utils.py).  A text is a sequence of words; Space is a
\* run of whitespace.  TfidfVectorizer(max_features, stop_words='english',
\* ngram_range=(1, 2)) is modelled by what its documentation says it does:
\* it drops stop words, takes the words and the pairs of neighbouring words
\* as features, keeps the max_features most frequent of them and weighs each.
Space == " "
\* the words of the texts, in alphabetical order; "the" is a stop word
Alphabet == <<"great", "phone", "the">>
StopWords == {"the"}
Rank(word) == CHOOSE i \in DOMAIN Alphabet : Alphabet[i] = word

\* `text and text.strip()`: the text has something besides whitespace
HasContent(text) == \E i \in DOMAIN text : text[i] # Space
\* the words the analyzer keeps of a text
RECURSIVE Tokens(_)
Tokens(text) ==
    IF text = <<>> THEN <<>>
    ELSE IF Head(text) = Space \/ Head(text) \in StopWords
         THEN Tokens(Tail(text))
         ELSE <<Head(text)>> \o Tokens(Tail(text))
\* the features of a text with their counts: words and neighbouring pairs
Unigrams(tokens) == {<<tokens[i]>> : i \in DOMAIN tokens}
Bigrams(tokens) ==
    {<<tokens[i], tokens[i + 1]>> : i \in 1 .. Len(tokens) - 1}
FeatureCount(tokens, feature) ==
    IF Len(feature) = 1
    THEN Cardinality({i \in DOMAIN tokens : tokens[i] = feature[1]})
    ELSE Cardinality({i \in 1 .. Len(tokens) - 1 :
                         tokens[i] = feature[1] /\ tokens[i + 1] = feature[2]})
\* the vocabulary of a list of texts and each feature's count over the list
Vocabulary(texts) ==
    UNION {Unigrams(Tokens(texts[i])) \cup Bigrams(Tokens(texts[i]))
             : i \in DOMAIN texts}
RECURSIVE CorpusCount(_, _)
CorpusCount(texts, feature) ==
    IF texts = <<>> THEN 0
    ELSE FeatureCount(Tokens(Head(texts)), feature)
         + CorpusCount(Tail(texts), feature)
\* the vocabularies max_features may leave: the whole one when it is small
\* enough, else max_features features none of which is rarer than a dropped
\* one (which of several equally frequent features stays is the library's)
LimitedVocabularies(texts, max_features) ==
    IF Cardinality(Vocabulary(texts)) <= max_features
    THEN {Vocabulary(texts)}
    ELSE {kept \in SUBSET Vocabulary(texts) :
             /\ Cardinality(kept) = max_features
             /\ \A k \in kept : \A d \in Vocabulary(texts) \ kept :
                   CorpusCount(texts, k) >= CorpusCount(texts, d)}
\* the vectorizer raises ValueError on a max_features that is not positive
\* and on an empty vocabulary
VectorizerRaises(texts, max_features) ==
    max_features <= 0 \/ Vocabulary(texts) = {}

\* feature_names come in alphabetical order
FeatureBefore(a, b) ==
    \/ Rank(a[1]) < Rank(b[1])
    \/ /\ a[1] = b[1]
       /\ \/ Len(a) < Len(b)
          \/ Len(a) = Len(b) /\ Len(a) = 2 /\ Rank(a[2]) <= Rank(b[2])
          \/ a = b
\* A plausible slip: the sort is not reversed.
RECURSIVE SortByScoreAscending(_, _)
SortByScoreAscending(features, scores) ==
    IF features = {} THEN <<>>
    ELSE LET first == CHOOSE x \in features : \A y \in features :
                 \/ scores[x] < scores[y]
                 \/ scores[x] = scores[y] /\ FeatureBefore(x, y)
         IN  <<first>> \o SortByScoreAscending(features \ {first}, scores)
\* keyword_scores.sort(key=lambda x: x[1], reverse=True): by decreasing
\* score, equal scores staying in the order of feature_names
RECURSIVE SortByScore(_, _)
SortByScore(features, scores) ==
    IF features = {} THEN <<>>
    ELSE LET first == CHOOSE x \in features : \A y \in features :
                 \/ scores[x] > scores[y]
                 \/ scores[x] = scores[y] /\ FeatureBefore(x, y)
         IN  <<first>> \o SortByScore(features \ {first}, scores)

\* scores are held in ten-thousandths; round(score, 3) gives thousandths
ScoreUnit == 10000
RoundScore(score) == RoundThousandths(Rat(score, ScoreUnit))
\* [{'keyword': kw, 'score': round(score, 3)} for kw, score in keyword_scores]
KeywordEntries(features, scores) ==
    LET sorted == SortByScore(features, scores)
    IN  [k \in DOMAIN sorted |->
            [keyword |-> sorted[k], score |-> RoundScore(scores[sorted[k]])]]

\* extract_keywords(texts, max_features), the vectorizer having kept the
\* features `kept` and summed their weights to `scores`
extract_keywords(texts, max_features, kept, scores) ==
    LET filtered == SelectSeq(texts, HasContent)
    IN  IF texts = <<>> \/ filtered = <<>>
        THEN [called |-> TRUE, raised |-> FALSE, keywords |-> <<>>]
        ELSE IF VectorizerRaises(filtered, max_features)
        THEN [called |-> TRUE, raised |-> TRUE, keywords |-> <<>>]
        ELSE [called |-> TRUE, raised |-> FALSE,
              keywords |-> KeywordEntries(kept, scores)]

\* ---- the texts extract_keywords is run on
MaxTexts == 2
MaxFeatures == 3
KeywordTexts ==
    {<<>>, <<Space>>, <<"the">>, <<"great">>, <<"great", "phone">>,
     <<"phone", Space, "the", "great">>, <<"great", "great", "phone">>}
\* the summed tf-idf weights a feature may get: positive, some of them
\* equal after rounding and some equal before it
KeywordScores == {4994, 4995, 5005, 12000}
TextLists == UNION {[1 .. n -> KeywordTexts] : n \in 0 .. MaxTexts}
KeywordInputs ==
    {[texts |-> t, max_features |-> f]
       : t \in TextLists, f \in 0 .. MaxFeatures}

KeywordInit ==
    /\ kwIn \in KeywordInputs
    /\ kwOut = NotCalled
    /\ NoComments /\ NoReviews /\ NoRequest /\ NoScoring /\ NoTrending
    /\ NoTrendScore /\ NoSnapshots /\ NoDashboard
    /\ NoEntry /\ NoRace /\ NoProfiles

\* a call of extract_keywords(texts, max_features)
ExtractKeywords ==
    /\ ~kwOut.called
    /\ LET filtered == SelectSeq(kwIn.texts, HasContent)
       IN  \E kept \in LimitedVocabularies(filtered, kwIn.max_features) :
           \E scores \in [kept -> KeywordScores] :
               kwOut' = extract_keywords(kwIn.texts, kwIn.max_features,
                                         kept, scores)
    /\ UNCHANGED <<kwIn, commentVars, reviewVars, response, sentimentVars,
                   trendingVars, scoreVars, snapshotVars, dashVars,
                   entryVars, inflight, profiles>>

KeywordNext == ExtractKeywords
SpecKeywords == KeywordInit /\ [][KeywordNext]_vars

\* -------------------------------------------------- failures in entry points
\* The analytics entry points of utils.py share one shape: the statements of
\* the body run inside `try`, and `except Exception` returns a fixed value.
\* Each is modelled by the statements of its body in order; a call names the
\* statement that raises, if any.
EntryPoints ==
    {"analyze_sentiment", "extract_keywords", "calculate_trend_score",
     "get_category_insights", "generate_dashboard_data"}
\* the statements of an entry point, in the order they run
Statements(entry) ==
    CASE entry = "analyze_sentiment" ->
             <<"TextBlob", "polarity", "label", "round">>
      [] entry = "extract_keywords" ->
             <<"not texts", "TfidfVectorizer", "filter", "fit_transform",
               "get_feature_names_out", "sum", "sort", "round">>
      [] entry = "calculate_trend_score" ->
             <<"start_date", "recent_reviews", "recent_analytics",
               "scores", "trend_score", "round">>
      [] entry = "get_category_insights" ->
             <<"start_date", "products", "reviews", "counts", "averages",
               "sentiment_distribution", "top_rated_products", "keywords">>
      [] entry = "generate_dashboard_data" ->
             <<"totals", "recent_reviews", "sentiment_stats", "top_products",
               "category_stats", "timeline", "dashboard_data", "keywords">>
StatementSet(entry) ==
    {Statements(entry)[i] : i \in DOMAIN Statements(entry)}
\* A plausible slip: the first statement runs before `try`.
TryBodyAfterFirst(entry) ==
    {Statements(entry)[i] : i \in 2 .. Len(Statements(entry))}
\* the statements inside `try`: all of them
TryBody(entry) == StatementSet(entry)
\* what `except Exception` returns
Fallback(entry) ==
    CASE entry = "analyze_sentiment" -> "(0.0, 'neutral')"
      [] entry = "extract_keywords" -> "[]"
      [] entry = "calculate_trend_score" -> "0.0"
      [] entry = "get_category_insights" -> "{}"
      [] entry = "generate_dashboard_data" -> "{}"
NoFailure == "none"
\* the statements a call reaches: extract_keywords returns before the
\* vectorizer is built when `not texts`, and after the filter when no text
\* with content is left
Reached(entry, texts) ==
    IF entry # "extract_keywords" THEN StatementSet(entry)
    ELSE IF texts = <<>> THEN {"not texts"}
    ELSE IF SelectSeq(texts, HasContent) = <<>>
         THEN {"not texts", "TfidfVectorizer", "filter"}
         ELSE StatementSet(entry)
\* the value of a call in which nothing raises
Computed(entry, texts) ==
    IF entry = "extract_keywords"
       /\ (texts = <<>> \/ SelectSeq(texts, HasContent) = <<>>)
    THEN "[]"
    ELSE "computed"
\* a call of an entry point: [raised, value] as its caller sees them
CallEntryPoint(in) ==
    IF in.fails = NoFailure \/ in.fails \notin Reached(in.entry, in.texts)
    THEN [called |-> TRUE, raised |-> FALSE,
          value |-> Computed(in.entry, in.texts)]
    ELSE IF in.fails \in TryBody(in.entry)
    THEN [called |-> TRUE, raised |-> FALSE, value |-> Fallback(in.entry)]
    ELSE [called |-> TRUE, raised |-> TRUE, value |-> "exception"]

EntryInputs ==
    UNION {{[entry |-> e, fails |-> f, texts |-> t]
              : f \in {NoFailure} \cup StatementSet(e),
                t \in IF e = "extract_keywords" THEN TextLists ELSE {<<>>}}
             : e \in EntryPoints}

EntryInit ==
    /\ callIn \in EntryInputs
    /\ callOut = NotCalled
    /\ NoComments /\ NoReviews /\ NoRequest /\ NoScoring /\ NoTrending
    /\ NoTrendScore /\ NoSnapshots /\ NoDashboard
    /\ NoKeywords /\ NoRace /\ NoProfiles

EntryCall ==
    /\ ~callOut.called
    /\ callOut' = CallEntryPoint(callIn)
    /\ UNCHANGED <<callIn, commentVars, reviewVars, response, sentimentVars,
                   trendingVars, scoreVars, snapshotVars, dashVars,
                   keywordVars, inflight, profiles>>

EntryNext == EntryCall
SpecEntry == EntryInit /\ [][EntryNext]_vars

\* ------------------------------------------- review requests served at once
\* approve, helpful and update each load the row (get_object), change the
\* loaded instance and call save(), which writes every column of the row.
\* Requests served by different workers interleave between the load and the
\* save; nothing in the views locks the row.
MaxRequests == 3
RaceOps == {"review_approve", "review_helpful", "review_partial_update"}
\* the review the requests are about, written by alice
RacePk == 1
RaceReview(approved) ==
    [ReviewSave(NewReview(RacePk, "alice",
                          [product |-> 1, content |-> 8000, rating |-> 5,
                           helpful_votes |-> AbsentInt]))
        EXCEPT !.is_approved = approved]
\* the bodies of the PATCH requests: a new rating, a new content
RaceBodies ==
    {[EmptyReviewBody EXCEPT !.rating = 1],
     [EmptyReviewBody EXCEPT !.content = -7000]}
RaceBodiesOf(op) ==
    IF op = "review_partial_update" THEN RaceBodies ELSE {EmptyReviewBody}
\* permission_classes of the three endpoints
RacePermitted(u, op) ==
    IF op = "review_approve" THEN IsAdminUser(u) ELSE IsAuthenticated(u)
\* what the view does to the instance it loaded
RaceModified(req) ==
    CASE req.op = "review_approve" -> [req.copy EXCEPT !.is_approved = TRUE]
      [] req.op = "review_helpful" ->
             [req.copy EXCEPT !.helpful_votes = @ + 1]
      [] req.op = "review_partial_update" ->
             UpdatedReview(req.copy, req.body, ReviewWritableFields)

\* what a request in flight leaves alone
besideRace ==
    <<commentVars, sentimentVars, trendingVars, scoreVars, snapshotVars,
      dashVars, keywordVars, entryVars, profiles>>

RaceInit ==
    /\ \E approved \in BOOLEAN : reviews = (RacePk :> RaceReview(approved))
    /\ reviewSeq = RacePk
    /\ inflight = {}
    /\ NoComments /\ NoRequest /\ NoScoring /\ NoTrending
    /\ NoTrendScore /\ NoSnapshots /\ NoDashboard
    /\ NoKeywords /\ NoEntry /\ NoProfiles

\* review = self.get_object(): a permitted request loads the row
RaceLoad(u, op) ==
    /\ Cardinality(inflight) < MaxRequests
    /\ RacePermitted(u, op)
    /\ ReviewVisible(u, RacePk) # {}
    /\ \E body \in RaceBodiesOf(op) :
           inflight' = inflight \cup
               {[id |-> Cardinality(inflight) + 1, op |-> op, user |-> u,
                 body |-> body, copy |-> reviews[RacePk], pc |-> "loaded"]}
    /\ UNCHANGED <<reviews, reviewSeq, response, besideRace>>
\* review.save(): the loaded instance, modified, is written whole
RaceSave(id) ==
    \E req \in inflight :
        /\ req.id = id
        /\ req.pc = "loaded"
        /\ reviews' = (RacePk :> ReviewSave(RaceModified(req))) @@ reviews
        /\ inflight' = (inflight \ {req}) \cup {[req EXCEPT !.pc = "done"]}
        /\ response' = Reply(req.op, req.user, 200, RacePk)
        /\ UNCHANGED <<reviewSeq, besideRace>>

RaceNext ==
    \/ \E u \in Users, op \in RaceOps : RaceLoad(u, op)
    \/ \E id \in 1 .. MaxRequests : RaceSave(id)
SpecRace == RaceInit /\ [][RaceNext]_vars

\* ------------------------------------------------------------ user profiles
\* UserProfile (models.py): one row per user, holding statistics over the
\* user's reviews that update_stats recomputes.
NewProfile ==
    [total_reviews |-> 0, average_rating_given |-> 0,
     helpful_votes_received |-> 0]
\* self.user.reviews.all()
UserReviews(u) == {r \in Rows(reviews) : r.user = u}
\* UserProfile.update_stats: the row it saves; average_rating_given is held
\* in hundredths and is assigned only when the user has a review
update_stats(profile, rows) ==
    [total_reviews |-> Cardinality(rows),
     average_rating_given |->
         IF Cardinality(rows) > 0
         THEN RoundHundredths(Avg(rows, "rating", 1))
         ELSE profile.average_rating_given,
     helpful_votes_received |-> SumOf(rows, "helpful_votes")]

\* review rows ever inserted while profiles are followed, and the users
\* whose requests are followed
MaxStatReviews == 2
StatUsers == Users \ Staff
StatPks == 1 .. MaxStatReviews
\* reviews of either product, rated 2 or 5
ProfileCreateBodies ==
    [product : Products, content : {8000}, rating : {2, 5},
     helpful_votes : {AbsentInt}]

ProfileInit ==
    /\ profiles = [u \in Users |-> NewProfile]
    /\ NoComments /\ NoReviews /\ NoRequest /\ NoScoring /\ NoTrending
    /\ NoTrendScore /\ NoSnapshots /\ NoDashboard
    /\ NoKeywords /\ NoEntry /\ NoRace

ProfileCreateRequest(u) ==
    \E body \in ProfileCreateBodies : ReviewCreateUpTo(u, body, MaxStatReviews)
\* profile.update_stats() for the profile of u
UpdateStats(u) ==
    /\ profiles' = [profiles EXCEPT ![u] = update_stats(@, UserReviews(u))]
    /\ UNCHANGED <<commentVars, reviewVars, response, sentimentVars,
                   trendingVars, scoreVars, snapshotVars, dashVars,
                   keywordVars, entryVars, inflight>>

ProfileNext ==
    \/ \E u \in StatUsers : ProfileCreateRequest(u)
    \/ \E u \in StatUsers, pk \in StatPks : ReviewDestroy(u, pk)
    \/ \E u \in StatUsers, pk \in StatPks : ReviewHelpful(u, pk)
    \/ \E u \in StatUsers : UpdateStats(u)
SpecProfile == ProfileInit /\ [][ProfileNext]_vars

\* ------------------------------------------------- the labels of stored rows
\* Reviews written through the API and by create_reviews, then saved again by
\* content edits and approvals; the dashboard's sentiment_stats is read off
\* the table (every row was created within the last 30 days).
SentimentLabels == {"positive", "neutral", "negative"}
\* bodies with a text of any sentiment, or a blank one
LabelCreateBodies ==
    [product : Products, content : ReviewContents \cup {BlankText},
     rating : {5}, helpful_votes : {AbsentInt}]
LabelPatchBodies ==
    [product : {AbsentPk}, content : ReviewContents \cup {BlankText},
     rating : {AbsentInt}, helpful_votes : {AbsentInt}]
\* the rating create_reviews draws; any of its texts may go with it, since
\* the label comes from the polarity TextBlob finds in the text
DrawnRatings == {3}

LabelCreateRequest(u) ==
    \E body \in LabelCreateBodies : ReviewCreateUpTo(u, body, MaxStatReviews)
LabelPatchRequest(u, pk) ==
    \E body \in LabelPatchBodies : ReviewUpdate(u, pk, body, TRUE)
LabelGenerate(u, p) ==
    \E approved \in BOOLEAN, rating \in DrawnRatings,
       content \in ReviewContents :
        CreateReviewsIterationUpTo(u, p, approved, rating, content,
                                   MaxStatReviews)
\* recent_reviews.aggregate(positive_count=..., negative_count=...,
\* neutral_count=...) and recent_reviews.count() over the table
StoredRecentApproved == {r \in Rows(reviews) : r.is_approved}
StoredDistribution ==
    [positive |-> LabelCount(StoredRecentApproved, "positive"),
     negative |-> LabelCount(StoredRecentApproved, "negative"),
     neutral |-> LabelCount(StoredRecentApproved, "neutral"),
     recent_reviews |-> Cardinality(StoredRecentApproved)]

LabelsNext ==
    \/ \E u \in StatUsers : LabelCreateRequest(u)
    \/ \E u \in StatUsers, pk \in StatPks : LabelPatchRequest(u, pk)
    \/ \E u \in Staff, pk \in StatPks : ReviewApprove(u, pk)
    \/ \E u \in StatUsers, p \in Products : LabelGenerate(u, p)
SpecLabels == ReviewInit /\ [][LabelsNext]_vars

\* ------------------------------------------------ comment moderation claims
\* the ids a list response carries
Ids(data) == {data[i].id : i \in DOMAIN data}

\* whether the public listing of the comment's product shows the comment:
\* the row is in the queryset the endpoint serializes
Listed(id) ==
    /\ id \in DOMAIN comments
    /\ comments[id] \in ProductCommentsQueryset(comments[id].product)

\* C2: in every reachable state the public product-comments endpoint returns,
\* to any caller and for every product, exactly the comments of that product
\* whose is_approved is True: each of them once, none of the unapproved ones
\* and none of another product.
C2_PublicListingExactlyApproved ==
    \A u \in Callers, p \in Products :
        LET r == ProductComments(u, p) IN
        /\ r.status = 200
        /\ Len(r.data) = Cardinality(Ids(r.data))
        /\ \A i \in DOMAIN r.data : r.data[i].is_approved = TRUE
        /\ \A id \in 1 .. MaxComments :
               id \in Ids(r.data) <=>
                   /\ id \in DOMAIN comments
                   /\ comments[id].product = p
                   /\ comments[id].is_approved = TRUE

\* a product with an approved and an unapproved comment: one is returned
C2_Witness ==
    \E a, b \in DOMAIN comments :
        /\ comments[a].product = comments[b].product
        /\ comments[a].is_approved = TRUE
        /\ comments[b].is_approved = FALSE
        /\ Ids(ProductComments(Anonymous, comments[a].product).data) = {a}

StaffModeration == {"approve", "reject", "admin_approve", "admin_reject"}

\* C3: is_approved of a comment changes only in a step that is a staff
\* approve or reject; an approve by a regular user is refused with 403 (401
\* without credentials) and changes nothing; create, update and partial
\* update requests of callers who are not staff leave is_approved of every
\* existing comment as it was.
C3_ApprovalOnlyByStaff ==
    [][ /\ \A id \in DOMAIN comments \cap DOMAIN comments' :
               comments'[id].is_approved # comments[id].is_approved =>
                   /\ response'.op \in StaffModeration
                   /\ response'.user \in Staff
                   /\ response'.status = 200
        /\ (response'.op = "approve" /\ response'.user \notin Staff) =>
               /\ response'.status = IF response'.user \in Users THEN 403 ELSE 401
               /\ comments' = comments
        /\ (response'.op \in {"create", "update", "partial_update"}
                /\ response'.user \notin Staff) =>
               \A id \in DOMAIN comments :
                   /\ id \in DOMAIN comments'
                   /\ comments'[id].is_approved = comments[id].is_approved
      ]_vars

\* a regular user's approve of a pending comment was refused with 403
C3_Witness ==
    /\ response.op = "approve"
    /\ response.user \in Users \ Staff
    /\ response.status = 403
    /\ \E id \in DOMAIN comments : comments[id].is_approved = FALSE

\* C4: a comment created through POST /api/comments/ is stored pending
\* (is_approved = False) and authored by the authenticated caller, whatever
\* the request body carries.
C4_CreatedPending ==
    (response.op = "create" /\ response.status = 201) =>
        /\ response.user \in Users
        /\ response.id \in DOMAIN comments
        /\ comments[response.id].is_approved = FALSE
        /\ comments[response.id].user = response.user

\* a create succeeded and its row is stored pending
C4_Witness ==
    /\ response.op = "create"
    /\ response.status = 201
    /\ comments[response.id].is_approved = FALSE

\* C5: a created comment is not publicly listed; a comment that is not
\* listed becomes listed only in a step that is a completed staff approve of
\* it; after a completed staff reject it is not listed; approve stores True
\* and reject stores False whatever the flag was before.
C5_ModerationLifecycle ==
    [][ \A id \in 1 .. MaxComments :
        /\ (response'.op = "create" /\ response'.status = 201 /\ response'.id = id) =>
               ~Listed(id)'
        /\ (comments' # comments /\ ~Listed(id) /\ Listed(id)') =>
               /\ response'.op \in {"approve", "admin_approve"}
               /\ response'.user \in Staff
               /\ response'.status = 200
               /\ response'.op = "approve" => response'.id = id
        /\ (response'.op = "approve" /\ response'.status = 200 /\ response'.id = id) =>
               /\ comments'[id].is_approved = TRUE
               /\ Listed(id)'
        /\ (response'.op = "reject" /\ response'.status = 200 /\ response'.id = id) =>
               /\ comments'[id].is_approved = FALSE
               /\ ~Listed(id)'
      ]_vars

\* a comment was rejected and left the listing while another stays listed
C5_Witness ==
    /\ response.op = "reject"
    /\ response.status = 200
    /\ ~Listed(response.id)
    /\ \E other \in DOMAIN comments : Listed(other)

\* C6: GET /api/comments/ returns to a regular user exactly the comments the
\* user authored and to a staff user all comments; a regular user retrieves
\* a comment with 200 exactly when it is the user's own, and a successful
\* update or delete by a regular user acts on one of the user's own comments
\* and leaves every other user's comments as they were.
C6_OwnCommentsOnly ==
    /\ [](\A u \in Users :
            LET r == CommentList(u) IN
            /\ r.status = 200
            /\ Len(r.data) = Cardinality(Ids(r.data))
            /\ \A id \in 1 .. (MaxComments + 1) :
                   /\ id \in Ids(r.data) <=>
                          /\ id \in DOMAIN comments
                          /\ (is_staff(u) \/ comments[id].user = u)
                   /\ CommentRetrieve(u, id).status = 200 <=>
                          /\ id \in DOMAIN comments
                          /\ (is_staff(u) \/ comments[id].user = u))
    /\ [][ (/\ response'.op \in {"update", "partial_update", "destroy"}
            /\ response'.user \notin Staff) =>
               /\ response'.status \in {200, 204} =>
                      /\ response'.id \in DOMAIN comments
                      /\ comments[response'.id].user = response'.user
               /\ \A id \in DOMAIN comments :
                      comments[id].user # response'.user =>
                          /\ id \in DOMAIN comments'
                          /\ comments'[id] = comments[id]
         ]_vars

\* two regular users each have a comment, one of them approved: each list
\* holds one comment
C6_Witness ==
    \E a, b \in DOMAIN comments :
        /\ comments[a].user = "alice"
        /\ comments[b].user = "bob"
        /\ comments[b].is_approved = TRUE
        /\ Ids(CommentList("alice").data) = {a}
        /\ Ids(CommentList("admin").data) = {a, b}

\* C7: GET /api/comments/pending/ returns to a staff user exactly the
\* comments, of all users, whose is_approved is False; a regular user gets
\* 403 (a caller without credentials 401) and no data.
C7_PendingExactlyUnapproved ==
    \A u \in Callers :
        LET r == CommentPending(u) IN
        IF u \in Staff
        THEN /\ r.status = 200
             /\ Len(r.data) = Cardinality(Ids(r.data))
             /\ \A i \in DOMAIN r.data : r.data[i].is_approved = FALSE
             /\ \A id \in 1 .. MaxComments :
                    id \in Ids(r.data) <=>
                        (id \in DOMAIN comments /\ comments[id].is_approved = FALSE)
        ELSE /\ r.status = IF u \in Users THEN 403 ELSE 401
             /\ r.data = <<>>

\* pending comments of two users next to nothing else, and an approved one
C7_Witness ==
    \E a, b \in DOMAIN comments :
        /\ comments[a].user # comments[b].user
        /\ comments[a].is_approved = FALSE
        /\ comments[b].is_approved = TRUE
        /\ Ids(CommentPending("admin").data) = {a}

\* ------------------------------------------------------------- review claims
\* C1: once a review's first save has set sentiment_score and
\* sentiment_label, every later save of the review (content edit, approve,
\* helpful vote) leaves both as they are, whatever the first score was.
C1_SentimentComputedOnce ==
    [][ \A id \in DOMAIN reviews \cap DOMAIN reviews' :
            reviews[id].sentiment_score # NoScore =>
                /\ reviews'[id].sentiment_score = reviews[id].sentiment_score
                /\ reviews'[id].sentiment_label = reviews[id].sentiment_label
      ]_vars

\* ---------------------------------------------------------- sentiment claims
\* C8: analyze_sentiment labels a text positive exactly when its polarity is
\* above 0.1, negative exactly when it is below -0.1 and neutral otherwise;
\* the polarities 0.1 and -0.1 themselves are neutral.
C8_LabelThresholds ==
    (sentResult.label # "unset" /\ ~TextBlobRaises(sentText)) =>
        LET polarity == TextBlobPolarity(sentText) IN
        /\ sentResult.label = "positive" <=> 10 * polarity > PolarityUnit
        /\ sentResult.label = "negative" <=> 10 * polarity < 0 - PolarityUnit
        /\ sentResult.label = "neutral" <=>
               (10 * polarity <= PolarityUnit /\ 10 * polarity >= 0 - PolarityUnit)
        /\ 10 * polarity = PolarityUnit => sentResult.label = "neutral"
        /\ 10 * polarity = 0 - PolarityUnit => sentResult.label = "neutral"

\* the text of polarity exactly 0.1 was scored
C8_Witness ==
    /\ 10 * TextBlobPolarity(sentText) = PolarityUnit
    /\ sentResult.label = "neutral"

\* ----------------------------------------------------------- trending claims
SamePartition(a, b) == a.period = b.period /\ a.date = b.date

\* C9: within every stored (period, date) partition an entry with a strictly
\* higher trend_score has a strictly lower rank.
C9_RankFollowsScore ==
    \A a, b \in trending :
        (SamePartition(a, b) /\ a.trend_score > b.trend_score) => a.rank < b.rank

\* C10: after any number of runs the ranks of every (period, date) partition
\* are dense: with n entries they are exactly 1..n, each held once.
C10_RanksDense ==
    ~trendRun.active =>
        \A a \in trending :
            LET partition == {b \in trending : SamePartition(a, b)} IN
            /\ {b.rank : b \in partition} = 1 .. Cardinality(partition)
            /\ \A b, c \in partition : b.rank = c.rank => b = c

\* --------------------------------------------------------- trend score claims
\* the snapshot rows and the approved reviews the window of a call holds
WindowRows == {a \in scoreIn.analytics : a.date >= Today - scoreIn.days}
WindowReviews == RecentReviews(scoreIn.reviews, Today - scoreIn.days)
Scored == scoreOut.called /\ ~scoreOut.raised

\* C11: with the default 7-day window, a product with at least 10 approved
\* reviews in the window whose window snapshots all carry rating 5 and
\* sentiment 1 and together at least 100 views gets review sub-score 1 and
\* trend score 1.0.
C11_Saturation ==
    ( /\ Scored
      /\ scoreIn.days = DefaultDays
      /\ Cardinality(WindowReviews) >= 10
      /\ WindowRows # {}
      /\ \A a \in WindowRows :
             a.average_rating = 5 * RatingUnit /\ a.average_sentiment = SentimentUnit
      /\ SumOf(WindowRows, "views") >= 100 ) =>
        /\ RatEq(scoreOut.review_count_score, Rat(1, 1))
        /\ scoreOut.trend_score = 1000

\* C12: the view sub-score is min(V / 100, 1) with V the sum of the views of
\* the snapshot rows in the window.
C12_ViewScoreSumsViews ==
    Scored =>
        RatEq(scoreOut.view_score,
              RatMin(Rat(SumOf(WindowRows, "views"), 100), Rat(1, 1)))

\* C13: for snapshots with average_rating in [0, 5] and average_sentiment in
\* [-1, 1], any number of reviews, any views and either window, the score
\* calculate_trend_score returns lies in [0, 1].
C13_ScoreBounded ==
    scoreOut.called => (0 <= scoreOut.trend_score /\ scoreOut.trend_score <= 1000)

\* a saturated product over the long window was scored above 0.8
C13_Witness ==
    /\ Scored
    /\ scoreIn.days # DefaultDays
    /\ Cardinality(WindowReviews) > 10
    /\ \A a \in WindowRows : a.average_rating = 5 * RatingUnit
    /\ scoreOut.trend_score > 800

\* C14: with no snapshot row in the window the rating sub-score is 0 and the
\* sentiment sub-score is 0.5; with no approved review in the window either,
\* the score is 0.125.
C14_NoSnapshotsNeutral ==
    (Scored /\ WindowRows = {}) =>
        /\ RatEq(scoreOut.rating_score, Rat(0, 1))
        /\ RatEq(scoreOut.sentiment_score, Rat(1, 2))
        /\ WindowReviews = {} => scoreOut.trend_score = 125

\* a product whose only snapshot and only review lie outside the window
\* was scored 0.125
C14_Witness ==
    /\ Scored
    /\ WindowRows = {} /\ scoreIn.analytics # {}
    /\ WindowReviews = {} /\ scoreIn.reviews # <<>>
    /\ scoreOut.trend_score = 125

\* ------------------------------------------------------------ snapshot claims
\* C15: a pass of the snapshot computation over a (product, date) leaves the
\* row of that key holding the values the pass computed, also when the key
\* had a row before the pass.
C15_RerunOverwrites ==
    [][ snapshotRun.active =>
            \A p \in snapshotRun.products :
                ([product |-> p, date |-> snapshotRun'.date]
                     @@ ProductDefaults(snapshotRun'.draw)) \in snapshots'.product
      ]_vars

\* C16: after any number of runs there is at most one product snapshot per
\* (product, date) and at most one category snapshot per (category, date).
C16_OneSnapshotPerKey ==
    /\ \A a, b \in snapshots.product :
           (a.product = b.product /\ a.date = b.date) => a = b
    /\ \A a, b \in snapshots.category :
           (a.category = b.category /\ a.date = b.date) => a = b

\* a run has passed over a product key and a category key that had rows
\* already: the rows hold other values than the pass drew
C16_Witness ==
    /\ ~snapshotRun.active
    /\ \E p \in snapshotRun.products : \E r \in snapshots.product :
           /\ r.product = p /\ r.date = snapshotRun.date
           /\ r.views # ProductDefaults(snapshotRun.draw).views
    /\ \E c \in snapshotRun.categories : \E r \in snapshots.category :
           /\ r.category = c /\ r.date = snapshotRun.date
           /\ r.total_reviews #
                  CategoryDefaults(snapshotRun.draw, snapshotRun.products).total_reviews

\* ------------------------------------------------------------- review claims
SamePair(a, b) == a.product = b.product /\ a.user = b.user

\* C17: no two stored reviews have the same (product, user) pair, and a step
\* that adds a review adds one whose pair no stored review had: a second
\* review of a user for a product is not added.
C17_OneReviewPerPair ==
    /\ [](\A i, j \in DOMAIN reviews : SamePair(reviews[i], reviews[j]) => i = j)
    /\ [][ \A i \in DOMAIN reviews' \ DOMAIN reviews :
               \A j \in DOMAIN reviews : ~SamePair(reviews'[i], reviews[j])
         ]_vars

\* a second review of a user for a product was refused by the database while
\* the user's review of the product and a review of another user are stored
C17_Witness ==
    /\ response.op = "review_create"
    /\ response.status = 500
    /\ \E i, j \in DOMAIN reviews :
           /\ reviews[i].user = response.user
           /\ reviews[j].user # response.user
           /\ reviews[j].product = reviews[i].product

\* --------------------------------------------------------- dashboard claims
\* the calendar month `back` months before the month of `now`
CalendarMonth(now, back) ==
    LET k == now.y * 12 + (now.m - 1) - back
    IN  [y |-> k \div 12, m |-> (k % 12) + 1]
\* the approved reviews created in a calendar month
ApprovedInMonth(reviewRows, month) ==
    {r \in reviewRows : YearMonth(r.created_at) = month /\ r.is_approved}

\* C18: the dashboard timeline has one entry for each of the 12 consecutive
\* calendar months that end with the current month, oldest first, and each
\* entry counts the approved reviews created from the first to the last day
\* of its month.
C18_TimelineTwelveMonths ==
    dashOut.called =>
        /\ Len(dashOut.timeline) = TimelineMonths
        /\ \A k \in 1 .. TimelineMonths :
              LET month == CalendarMonth(dashIn.now, TimelineMonths - k)
              IN  /\ dashOut.timeline[k].month = month
                  /\ dashOut.timeline[k].reviews =
                         Cardinality(ApprovedInMonth(dashIn.reviews, month))

\* the entries of a ranking come by non-increasing average rating
NonIncreasingAvgRating(ranking) ==
    \A k \in 1 .. Len(ranking) - 1 :
        \/ ranking[k + 1].avg_rating = None
        \/ /\ ranking[k].avg_rating # None
           /\ RatLeq(ranking[k + 1].avg_rating, ranking[k].avg_rating)

\* C19: category_stats holds only categories with at least 3 approved
\* reviews, at most 10 of them, ordered by non-increasing average rating.
C19_CategoryStatsRanked ==
    dashOut.called =>
        /\ \A k \in DOMAIN dashOut.category_stats :
              dashOut.category_stats[k].review_count >= MinReviewCount
        /\ Len(dashOut.category_stats) <= RankingLimit
        /\ NonIncreasingAvgRating(dashOut.category_stats)

\* the listings of the store with at least 3 approved reviews
Qualifying ==
    {p \in dashIn.products :
        Cardinality({r \in dashIn.reviews :
                        r.product = p.id /\ r.is_approved}) >= MinReviewCount}

\* C20: top_products holds only products with at least 3 approved reviews,
\* at most 10 of them, ordered by non-increasing average rating; a product
\* with fewer than 3 approved reviews is never in it, however many unapproved
\* reviews it has.
C20_TopProductsRanked ==
    dashOut.called =>
        /\ \A k \in DOMAIN dashOut.top_products :
              \E p \in Qualifying : p.id = dashOut.top_products[k].id
        /\ Len(dashOut.top_products) <= RankingLimit
        /\ NonIncreasingAvgRating(dashOut.top_products)
\* more than 10 listings qualify, the ranking is cut to 10 entries of more
\* than one average, and a listing with 2 approved and 3 unapproved reviews
\* is left out
C20_Witness ==
    /\ dashOut.called
    /\ Cardinality(Qualifying) > RankingLimit
    /\ Len(dashOut.top_products) = RankingLimit
    /\ ~RatEq(dashOut.top_products[1].avg_rating,
              dashOut.top_products[RankingLimit].avg_rating)
    /\ \E p \in dashIn.products \ Qualifying :
          /\ Cardinality({r \in dashIn.reviews : r.product = p.id}) >
                 MinReviewCount
          /\ \A k \in DOMAIN dashOut.top_products :
                dashOut.top_products[k].id # p.id

\* ---------------------------------------------------------- keyword claims
\* C21: for every list of texts and every max_features, extract_keywords
\* returns at most max_features entries, and the scores of the entries it
\* returns do not increase from the first to the last.
C21_KeywordsCappedAndSorted ==
    kwOut.called =>
        /\ Len(kwOut.keywords) <= kwIn.max_features
        /\ \A k \in 1 .. Len(kwOut.keywords) - 1 :
              kwOut.keywords[k].score >= kwOut.keywords[k + 1].score
\* the vocabulary was cut to max_features and entries of different scores
\* were returned
C21_Witness ==
    /\ kwOut.called
    /\ Cardinality(Vocabulary(SelectSeq(kwIn.texts, HasContent))) >
           kwIn.max_features
    /\ Len(kwOut.keywords) = kwIn.max_features
    /\ Len(kwOut.keywords) >= 2
    /\ kwOut.keywords[1].score > kwOut.keywords[Len(kwOut.keywords)].score

\* C22: no analytics entry point raises to its caller: when a statement of
\* its computation fails, analyze_sentiment returns (0.0, 'neutral'),
\* extract_keywords [], calculate_trend_score 0.0, get_category_insights and
\* generate_dashboard_data an empty mapping; extract_keywords also returns []
\* for an empty list of texts and for one whose texts are all blank.
C22_NoEntryPointRaises ==
    callOut.called =>
        /\ ~callOut.raised
        /\ (callIn.fails # NoFailure
             /\ callIn.fails \in Reached(callIn.entry, callIn.texts))
               => callOut.value = Fallback(callIn.entry)
        /\ (callIn.entry = "extract_keywords"
             /\ \A i \in DOMAIN callIn.texts : ~HasContent(callIn.texts[i]))
               => callOut.value = "[]"
\* a call in which the first statement of the body raised
C22_Witness ==
    /\ callOut.called
    /\ callIn.fails = Statements(callIn.entry)[1]
    /\ callIn.entry = "generate_dashboard_data"
    /\ callOut.value = "{}"

\* ------------------------------------------------------- visibility claims
\* the store without its unapproved reviews: it differs from the store only
\* in reviews whose is_approved is False
ApprovedOnly(reviewRows) == {r \in reviewRows : r.is_approved}

\* C23: unapproved reviews do not influence what the public sees: two stores
\* that differ only in unapproved reviews give the same average_rating,
\* review_count and sentiment_score for every product and the same
\* top_products entries.
C23_UnapprovedInvisible ==
    dashOut.called =>
        /\ \A p \in dashIn.products :
              ProductPublicFields(dashIn.reviews, p.id) =
                  ProductPublicFields(ApprovedOnly(dashIn.reviews), p.id)
        /\ \E tie \in Ties :
              dashOut.top_products =
                  top_products(dashIn.products, ApprovedOnly(dashIn.reviews),
                               tie)

\* ------------------------------------------------------ concurrency claims
Done(op) == {req \in inflight : req.op = op /\ req.pc = "done"}

\* C24: once a staff approve request on a review has completed, the stored
\* is_approved of the review is True in every later state, however the
\* approve interleaves with helpful and update requests on the same review.
C24_ApprovalSticks ==
    Done("review_approve") # {} => reviews[RacePk].is_approved = TRUE

\* C25: when n helpful requests on a review have all completed, under any
\* interleaving, the stored helpful_votes is n more than before the first of
\* them started.
C25_NoVoteLost ==
    (\A req \in inflight : req.op = "review_helpful" /\ req.pc = "done")
        => reviews[RacePk].helpful_votes =
               RaceReview(FALSE).helpful_votes
               + Cardinality(Done("review_helpful"))

\* ------------------------------------------------------- ownership claims
\* C26: a non-staff user updates or deletes a review through the API only if
\* they wrote it: no request of a non-staff user changes the content, rating
\* or helpful_votes of a review another user wrote (a helpful request adding
\* one vote apart), nor deletes it, approved or not.
C26_OnlyAuthorWrites ==
    [][\A pk \in DOMAIN reviews :
          (/\ response'.user \in Users \ Staff
           /\ reviews[pk].user # response'.user)
          => /\ pk \in DOMAIN reviews'
             /\ reviews'[pk].content = reviews[pk].content
             /\ reviews'[pk].rating = reviews[pk].rating
             /\ \/ reviews'[pk].helpful_votes = reviews[pk].helpful_votes
                \/ /\ response'.op = "review_helpful"
                   /\ reviews'[pk].helpful_votes =
                          reviews[pk].helpful_votes + 1]_vars

\* -------------------------------------------------- score and label claims
\* C27: the pair analyze_sentiment returns is consistent: the label is
\* 'positive' only if the returned score is above 0.1 and 'negative' only if
\* the returned score is below -0.1, for every polarity from -1 to 1.
C27_LabelMatchesReturnedScore ==
    /\ sentResult.label = "positive" => sentResult.score > PositiveAbove
    /\ sentResult.label = "negative" => sentResult.score < NegativeBelow

\* ---------------------------------------------------------- profile claims
\* C28: after update_stats the profile's total_reviews, average_rating_given
\* and helpful_votes_received are the count, the mean rating (to 2 decimals,
\* 0 when there is none) and the sum of helpful votes of the user's reviews
\* as they are then, after any creations and deletions of reviews, the
\* deletion of the user's last review since the previous update_stats
\* included.
C28_StatsMatchReviews ==
    [][\A u \in Users :
          UpdateStats(u) =>
              /\ profiles'[u].total_reviews = Cardinality(UserReviews(u))
              /\ profiles'[u].average_rating_given =
                     (IF UserReviews(u) = {} THEN 0
                      ELSE RoundHundredths(Avg(UserReviews(u), "rating", 1)))
              /\ profiles'[u].helpful_votes_received =
                     SumOf(UserReviews(u), "helpful_votes")]_vars

\* --------------------------------------------------- category count claims
\* the listings under a category and the approved reviews on them
ListingsUnder(c) == {p \in dashIn.products : p.category = c}
ApprovedUnder(c) ==
    {r \in dashIn.reviews :
        r.is_approved /\ \E p \in ListingsUnder(c) : r.product = p.id}

\* C29: in the category listing and in the dashboard's category_stats the
\* product_count of a category is the number of listings under it, whatever
\* the number of reviews on those listings, and its review_count is the
\* number of approved reviews on those listings.
C29_CategoryCounts ==
    dashOut.called =>
        /\ \A row \in CategoryAnnotate(dashIn.categories, dashIn.products,
                                       dashIn.reviews) :
              /\ row.product_count = Cardinality(ListingsUnder(row.id))
              /\ row.review_count = Cardinality(ApprovedUnder(row.id))
        /\ \A k \in DOMAIN dashOut.category_stats :
              LET row == dashOut.category_stats[k]
              IN  /\ row.product_count = Cardinality(ListingsUnder(row.id))
                  /\ row.review_count = Cardinality(ApprovedUnder(row.id))

\* ------------------------------------------------------------ label claims
\* C30: every stored review created through the API or by the sample-data
\* generator has, after any sequence of saves, a sentiment_label that is
\* 'positive', 'neutral' or 'negative'; so the positive, negative and neutral
\* counts of the dashboard add up to its count of approved reviews of the
\* last 30 days.
C30_LabelsPartition ==
    /\ \A r \in Rows(reviews) : r.sentiment_label \in SentimentLabels
    /\ StoredDistribution.positive + StoredDistribution.negative
           + StoredDistribution.neutral = StoredDistribution.recent_reviews
\* two approved reviews of different labels are stored, one written by the
\* generator and one through the API, after a content edit was saved
C30_Witness ==
    /\ response.op = "review_partial_update"
    /\ response.status = 200
    /\ \E i, j \in DOMAIN reviews :
          /\ reviews[i].is_approved /\ reviews[j].is_approved
          /\ reviews[i].sentiment_label # reviews[j].sentiment_label
          /\ reviews[i].rating # reviews[j].rating
====
